---- MODULE Spec2Model ----
(***************************************************************************)
(* Model of the AI Growth Analyst agent: one POST /chat request driving    *)
(* the two-node LangGraph loop (chat_node <-> tool_node) of                *)
(* app/agent/agent.py, followed by the visibility filter of                *)
(* app/utils/chat_utils.py.                                                *)
(***************************************************************************)
EXTENDS Integers, Sequences, FiniteSets, TLC

(* ----------------------------- bounds ---------------------------------- *)
\* longest caller-supplied list of chat turns
MaxInput == 1
\* most ToolCalls the model issues in one run, in one response or over
\* several turns (runs of Spec; the runs of LongSpec are bounded by the
\* recursion limit alone)
MaxToolCalls == 2

(* --------------------------- program constants -------------------------- *)
\* graph.ainvoke(state, config=config): config carries no "recursion_limit",
\* so the compiled graph runs with LangGraph's default of 25 supersteps
RecursionLimit == 25

\* the injected system prompt (agent.py, system_prompt)
system_prompt == "# AI Growth Analyst - System Prompt"

\* tool_call_id of a message that is not a tool result
NoId == 0

(* ------------------------------ messages -------------------------------- *)
HumanMessage(c) ==
    [type |-> "human", content |-> c, tool_calls |-> <<>>, tool_call_id |-> NoId]

AIMessage(c, calls) ==
    [type |-> "ai", content |-> c, tool_calls |-> calls, tool_call_id |-> NoId]

SystemMessage(c) ==
    [type |-> "system", content |-> c, tool_calls |-> <<>>, tool_call_id |-> NoId]

ToolMessage(c, id) ==
    [type |-> "tool", content |-> c, tool_calls |-> <<>>, tool_call_id |-> id]

\* class ChatTurn: a {role, content} pair, role being any string
ChatTurn(r, c) == [role |-> r, content |-> c]

\* the turns a caller sends: the roles that have a message class (one of
\* them under its alias, an assistant turn with empty content), role "tool"
\* and a role that is not a chat role at all
ChatTurns ==
    {ChatTurn("user", "Top 3 pages last week"),
     ChatTurn("human", "And last month?"),
     ChatTurn("system", "Answer briefly."),
     ChatTurn("assistant", ""),
     ChatTurn("tool", "42"),
     ChatTurn("moderator", "stop")}

\* all sequences over S of length lo..hi
SeqsOf(S, lo, hi) == UNION {[1..n -> S] : n \in lo..hi}

Requests == SeqsOf(ChatTurns, 0, MaxInput)

(* ------------------------- the tool registry ---------------------------- *)
utility_tools == {"get_current_datetime"}

google_analytics_tools ==
    {"get_google_analytics_overall_traffic",
     "get_google_analytics_daily_traffic",
     "get_google_analytics_traffic_by_countries",
     "get_google_analytics_daily_traffic_for_country",
     "get_google_analytics_traffic_by_pages",
     "get_google_analytics_daily_traffic_for_page"}

google_search_console_tools ==
    {"get_search_console_overall",
     "get_search_console_daily",
     "get_search_console_countries",
     "get_search_console_daily_for_country",
     "get_search_console_keywords",
     "get_search_console_daily_for_keyword"}

google_ads_tools ==
    {"get_google_ads_overall",
     "get_google_ads_daily",
     "get_google_ads_campaigns",
     "get_google_ads_daily_for_campaign"}

all_tools ==
    utility_tools \cup google_analytics_tools
        \cup google_search_console_tools \cup google_ads_tools


(* ------------------------------ ToolCalls ------------------------------- *)
\* a ToolCall of an assistant message: the model's opaque id and the tool name
ToolCall(id, name) == [id |-> id, name |-> name]

\* the ids the model gives the n ToolCalls of a response: unique within the
\* response, ascending or descending, and used again on later turns
CallIds(n) == {[i \in 1..n |-> i], [i \in 1..n |-> n + 1 - i]}

\* tool names the model asks for: the time utility, one data tool, and a name
\* that is not registered
RequestedNames == {"get_current_datetime", "get_google_ads_overall", "get_weather"}

CallLists ==
    UNION {{[i \in 1..n |-> ToolCall(ids[i], names[i])] :
               ids \in CallIds(n), names \in [1..n -> RequestedNames]} :
           n \in 1..MaxToolCalls}

AIContents == {"", "Here is the report."}

\* every response the model may give: text with or without ToolCalls
RichResponses == {AIMessage(c, calls) : c \in AIContents, calls \in CallLists \cup {<<>>}}

\* the responses of a model that asks for the time turn after turn, or answers
PlainResponses ==
    {AIMessage("", <<ToolCall(1, "get_current_datetime")>>),
     AIMessage("Here is the report.", <<>>)}

\* ToolCalls the model has issued so far in the run (all of them answered)
issued(msgs) == Cardinality({p \in 1..Len(msgs) : msgs[p].type = "tool"})

(* -------------------------- add_messages reducer ------------------------ *)
\* messages: Annotated[list, add_messages] -- a {role, content} dict is
\* coerced to a message object by its role; a role without a message class,
\* and role "tool" without a tool_call_id, make the coercion raise
Unsupported == [type |-> "unsupported", content |-> "", tool_calls |-> <<>>, tool_call_id |-> NoId]

convert_to_message(turn) ==
    CASE turn.role \in {"user", "human"}   -> HumanMessage(turn.content)
      [] turn.role \in {"assistant", "ai"} -> AIMessage(turn.content, <<>>)
      [] turn.role = "system"              -> SystemMessage(turn.content)
      [] OTHER                             -> Unsupported

\* variant: the route puts the system prompt in front of the caller's turns
convert_to_messages_with_prompt(turns) ==
    <<SystemMessage(system_prompt)>> \o [i \in 1..Len(turns) |-> convert_to_message(turns[i])]

convert_to_messages(turns) == [i \in 1..Len(turns) |-> convert_to_message(turns[i])]

coercible(turns) == \A i \in 1..Len(turns) : convert_to_message(turns[i]) # Unsupported

\* variant: a state key without a reducer, where an update overwrites
add_messages_overwrite(left, right) == right

\* every message gets its own fresh id, so the reducer never replaces: it appends
add_messages(left, right) == left \o right

(* ------------------------------ the graph ------------------------------- *)
\* variant: the system prompt is stored in the state with the response
chatbot_keeps_prompt(response) == <<SystemMessage(system_prompt), response>>

\* chatbot(state): the update the chat node returns for the model's response
chatbot(response) == <<response>>

\* variant: the system prompt is put after the history
llm_input_prompt_last(msgs) == msgs \o <<SystemMessage(system_prompt)>>

\* what the model is sent on a turn
llm_input(msgs) == <<SystemMessage(system_prompt)>> \o msgs

\* variant: the routing test negated
should_continue_negated(msgs) ==
    IF Len(msgs[Len(msgs)].tool_calls) > 0 THEN "__end__" ELSE "tool_node"

should_continue(msgs) ==
    IF Len(msgs[Len(msgs)].tool_calls) > 0 THEN "tool_node" ELSE "__end__"

\* ToolNode: the text a tool run can produce
INVALID_TOOL_NAME_ERROR == "Error: not a valid tool, try one of the registered tools."

get_current_datetime == {"2025-09-01T12:00:00"}

get_google_ads_overall ==
    {"{impressions: 1200, spend: 35.5}",
     "Error fetching Google Ads overall: ['oauth required']"}

run_tool(name) ==
    CASE name \notin all_tools            -> {INVALID_TOOL_NAME_ERROR}
      [] name = "get_current_datetime"    -> get_current_datetime
      [] OTHER                            -> get_google_ads_overall

\* one finished tool run: the position of its ToolCall and the text it produced
ToolRun(i, text) == [index |-> i, content |-> text]

finished(runs) == {runs[k].index : k \in 1..Len(runs)}

output_of(runs, i) == (CHOOSE k \in 1..Len(runs) : runs[k].index = i)

\* variant: a ToolCall naming no registered tool is skipped
tool_node_skip_unknown(calls, runs) ==
    LET known(i) == calls[i].name \in all_tools
        idx == SelectSeq([i \in 1..Len(calls) |-> i], known)
    IN [k \in 1..Len(idx) |->
           ToolMessage(runs[output_of(runs, idx[k])].content, calls[idx[k]].id)]

\* variant: only the first ToolCall of a response is answered
tool_node_first_only(calls, runs) ==
    [i \in 1..1 |-> ToolMessage(runs[output_of(runs, i)].content, calls[i].id)]

\* variant: the outputs are returned in the order the runs finished
tool_node_as_completed(calls, runs) ==
    [k \in 1..Len(runs) |-> ToolMessage(runs[k].content, calls[runs[k].index].id)]

\* ToolNode gathers the runs and returns their outputs in the order of the calls
tool_node(calls, runs) ==
    [i \in 1..Len(calls) |-> ToolMessage(runs[output_of(runs, i)].content, calls[i].id)]

\* variant: the tool node wired to the end of the graph
tool_node_edge_to_end == "__end__"

\* builder.add_edge("tool_node", "chat_node")
tool_node_edge == "chat_node"

\* variant: the limit test off by one
tick_at_limit(s, next) == IF s >= RecursionLimit THEN "out_of_steps" ELSE next

\* the Pregel loop stops with GraphRecursionError once the step count passes
\* the limit; the check comes before the next node is looked up
tick(s, next) == IF s > RecursionLimit THEN "out_of_steps" ELSE next

(* -------------------------- visibility filter --------------------------- *)
PublicTurn(r, c) == ChatTurn(r, c)

\* variant: assistant messages are labelled with the message class name
convert_message_ai_role(msg) ==
    CASE msg.type = "human"  -> PublicTurn("user", msg.content)
      [] msg.type = "ai"     -> PublicTurn("ai", msg.content)
      [] msg.type = "system" -> PublicTurn("system", msg.content)
      [] OTHER               -> PublicTurn("ValueError", "")

convert_message(msg) ==
    CASE msg.type = "human"  -> PublicTurn("user", msg.content)
      [] msg.type = "ai"     -> PublicTurn("assistant", msg.content)
      [] msg.type = "system" -> PublicTurn("system", msg.content)
      [] OTHER               -> PublicTurn("ValueError", "")

\* variant: every assistant message with ToolCalls is hidden
is_public_hides_all_requests(msg) ==
    IF msg.type = "tool" THEN FALSE
    ELSE IF msg.type = "ai" /\ Len(msg.tool_calls) > 0 THEN FALSE
    ELSE msg.type \in {"human", "ai", "system"}

\* variant: the ToolCalls test negated
is_public_negated_calls(msg) ==
    IF msg.type = "tool" THEN FALSE
    ELSE IF msg.type = "ai" /\ msg.content = "" /\ ~(Len(msg.tool_calls) > 0) THEN FALSE
    ELSE msg.type \in {"human", "ai", "system"}

is_public(msg) ==
    IF msg.type = "tool" THEN FALSE
    ELSE IF msg.type = "ai" /\ msg.content = "" /\ Len(msg.tool_calls) > 0 THEN FALSE
    ELSE msg.type \in {"human", "ai", "system"}

to_public_messages(msgs) ==
    LET kept == SelectSeq(msgs, is_public)
    IN [i \in 1..Len(kept) |-> convert_message(kept[i])]

(* ------------------------------ responses ------------------------------- *)
NoResponse == [status |-> 0, messages |-> <<>>]

\* an exception no handler of main.py is registered for: plain HTTP 500
InternalServerError == [status |-> 500, messages |-> <<>>]

ChatResponse(msgs) ==
    LET out == to_public_messages(msgs)
    IN IF \E i \in 1..Len(out) : out[i].role = "ValueError"
       THEN InternalServerError
       ELSE [status |-> 200, messages |-> out]

\* what the caller gets once the graph run has ended in status p
reply(p, msgs) ==
    CASE p = "__end__"      -> ChatResponse(msgs)
      [] p = "out_of_steps" -> InternalServerError
      [] OTHER              -> NoResponse

(* --------------------------- backend replies ---------------------------- *)
\* a JSON value as the clients look at it: its type, what Python's str() makes
\* of it, and for a list its items
Val(t, s, items) == [t |-> t, s |-> s, items |-> items]

Absent == Val("absent", "", <<>>)
Null == Val("null", "None", <<>>)
Str(x) == Val("str", x, <<>>)
Num(x) == Val("num", x, <<>>)
List(xs) == Val("list", "", xs)

\* Python truthiness of a JSON value
truthy(v) ==
    CASE v.t = "str"  -> v.s # ""
      [] v.t = "num"  -> v.s # "0"
      [] v.t = "list" -> v.items # <<>>
      [] OTHER        -> FALSE

\* strings that str.strip() empties
Blank == {"", " "}

\* the body of an HTTP response: whether it parses as JSON, its raw text when
\* it does not, the JSON type of the parsed value, and for an object its
\* "errors", "message" and "data" fields
Body(json, text, shape, errors, message, data) ==
    [json |-> json, text |-> text, shape |-> shape,
     errors |-> errors, message |-> message, data |-> data]

NotJson(text) == Body(FALSE, text, "none", Absent, Absent, "absent")
Object(errors, message, data) == Body(TRUE, "", "dict", errors, message, data)
Array == Body(TRUE, "", "list", Absent, Absent, "absent")

\* the "errors" fields an error envelope may carry
ErrorsFields ==
    {Absent, Null, Num("5"), Str("oauth required"), Str(""),
     List(<<>>), List(<<Str("a"), Str("b")>>), List(<<Str(""), Str(" ")>>),
     List(<<Str("a"), Str(" ")>>), List(<<Num("5")>>)}

\* the "message" fields an error envelope may carry
MessageFields == {Absent, Str("X"), Str(""), Num("0")}

\* what "data" holds in a success envelope: nothing, a payload of the
\* endpoint's shape, one whose numbers are sent as numeric strings, one with
\* a field missing, one with a field of the wrong type, or null
DataFields == {"absent", "valid", "numeric_strings", "missing_field", "wrong_type", "null"}

ErrorBodies ==
    {NotJson(""), NotJson("<html>Bad Gateway</html>"), Array}
        \cup {Object(e, m, "absent") : e \in ErrorsFields, m \in MessageFields}

SuccessBodies ==
    {NotJson(""), NotJson("OK"), Array} \cup {Object(Absent, Absent, d) : d \in DataFields}

\* what comes back from self.client.request: a response, or an
\* httpx.RequestError (DNS failure and refused connection are ConnectError)
Response(status, body) == [kind |-> "response", status |-> status, body |-> body, exc |-> ""]
RequestError(exc) == [kind |-> "network", status |-> 0, body |-> NotJson(""), exc |-> exc]

SuccessStatuses == {200}
ErrorStatuses == {401, 500, 503}
RequestErrors == {"ConnectError", "ConnectTimeout", "ReadTimeout"}

is_success(status) == status \in 200..299

\* every reply a fetch may get
Replies ==
    {Response(s, b) : s \in SuccessStatuses, b \in SuccessBodies}
        \cup {Response(s, b) : s \in ErrorStatuses, b \in ErrorBodies}
        \cup {RequestError(e) : e \in RequestErrors}

(* --------------------------- backend clients ---------------------------- *)
UNKNOWN_API_ERROR == "An unknown API error occurred."

\* [str(x) for x in val if str(x).strip()]
RECURSIVE non_blank(_)
non_blank(items) ==
    IF items = <<>> THEN <<>>
    ELSE IF Head(items).s \in Blank THEN non_blank(Tail(items))
    ELSE <<Head(items).s>> \o non_blank(Tail(items))

\* variant: a string "errors" field is ignored
extract_errors_list_only(payload) ==
    IF payload.shape = "dict" /\ payload.errors.t = "list"
    THEN non_blank(payload.errors.items)
    ELSE IF payload.shape = "dict" /\ payload.message.t # "absent" /\ truthy(payload.message)
    THEN <<payload.message.s>>
    ELSE <<UNKNOWN_API_ERROR>>

\* _extract_errors(payload)
_extract_errors(payload) ==
    IF payload.shape = "dict" /\ payload.errors.t = "list"
    THEN non_blank(payload.errors.items)
    ELSE IF payload.shape = "dict" /\ payload.errors.t = "str"
    THEN <<payload.errors.s>>
    ELSE IF payload.shape = "dict" /\ payload.message.t # "absent" /\ truthy(payload.message)
    THEN <<payload.message.s>>
    ELSE <<UNKNOWN_API_ERROR>>

\* variant: an empty message list is kept as it is
APIError_keeps_empty(status_code, errors) ==
    [kind |-> "APIError", status_code |-> status_code, errors |-> errors,
     body |-> NotJson("")]

\* APIError(status_code, errors): errors or ["An unknown API error occurred."]
APIError(status_code, errors) ==
    [kind |-> "APIError", status_code |-> status_code,
     errors |-> IF errors = <<>> THEN <<UNKNOWN_API_ERROR>> ELSE errors,
     body |-> NotJson("")]

\* what a client call gives its caller: a parsed body, typed records, an
\* APIError, or another exception
Returned(body) == [kind |-> "json", status_code |-> 0, errors |-> <<>>, body |-> body]
Raised(exc) == [kind |-> exc, status_code |-> 0, errors |-> <<>>, body |-> NotJson("")]
Records(body) == [kind |-> "records", status_code |-> 0, errors |-> <<>>, body |-> body]

\* variant: a body that is not JSON is dropped
error_data_unparsed_dropped(body) == IF body.json THEN body ELSE Array

\* try: e.response.json()  except: {"message": e.response.text}
error_data(body) == IF body.json THEN body ELSE Object(Absent, Str(body.text), "absent")

CONNECT_FAILED == "Failed to connect to the service: "

\* except httpx.RequestError
on_request_error(exc) == APIError(503, <<CONNECT_FAILED \o exc>>)

\* except httpx.HTTPStatusError
on_status_error(status, body) == APIError(status, _extract_errors(error_data(body)))

\* variant: a failed connection is tried once more
attempts_retry(resp) == IF resp.kind = "network" THEN 2 ELSE 1

\* HTTP requests one _make_request sends: self.client.request is awaited once
attempts(resp) == 1

\* _make_request: the outcome for the reply the request got
_make_request(resp) ==
    CASE resp.kind = "network"   -> on_request_error(resp.exc)
      [] ~is_success(resp.status) -> on_status_error(resp.status, resp.body)
      [] ~resp.body.json          -> Raised("JSONDecodeError")
      [] OTHER                     -> Returned(resp.body)

\* the endpoints whose "data" is one record; the others return a list
overall_tools ==
    {"get_google_analytics_overall_traffic", "get_search_console_overall",
     "get_google_ads_overall"}

data_tools == google_analytics_tools \cup google_search_console_tools \cup google_ads_tools

\* Model.model_validate on data["data"]: pydantic's lax mode converts numeric
\* strings to numbers; a missing or wrong-typed field raises
model_validate(name, body) ==
    CASE body.data \in {"valid", "numeric_strings"}    -> Records(body)
      [] body.data \in {"missing_field", "wrong_type"} -> Raised("ValidationError")
      [] name \in overall_tools                        -> Raised("ValidationError")
      [] OTHER                                         -> Raised("TypeError")

\* fetch_*_data: one _make_request, then data["data"] parsed into records
fetch(name, resp) ==
    LET data == _make_request(resp)
    IN CASE data.kind # "json"          -> data
         [] data.body.shape # "dict"    -> Raised("TypeError")
         [] data.body.data = "absent"   -> Raised("KeyError")
         [] OTHER                       -> model_validate(name, data.body)

(* ------------------------------ data tools ------------------------------ *)
\* config["configurable"].get("auth_token"): a token, an empty string, or None
None == "None"
Tokens == {None, "", "jwt"}

MISSING_TOKEN == "Error: Authentication token was not provided to the tool."

\* format_response: the records as JSON text
format_response(records) == "{sessions: 1200, ...}"

RECURSIVE quoted(_)
quoted(xs) ==
    IF Len(xs) = 1 THEN "'" \o xs[1] \o "'"
    ELSE "'" \o xs[1] \o "', " \o quoted(Tail(xs))

\* Python's rendering of a list of strings in an f-string
repr(xs) == IF xs = <<>> THEN "[]" ELSE "[" \o quoted(xs) \o "]"

\* the opening of each tool's error text (with the arguments of the call)
error_prefix(name) ==
    CASE name = "get_search_console_overall" -> "Error fetching Search Console overall: "
      [] name = "get_search_console_daily" -> "Error fetching Search Console daily: "
      [] name = "get_search_console_keywords" -> "Error fetching Search Console keywords: "
      [] name = "get_search_console_daily_for_keyword" ->
            "Error fetching Search Console for keyword 'shoes': "
      [] name = "get_search_console_countries" -> "Error fetching Search Console countries: "
      [] name = "get_search_console_daily_for_country" ->
            "Error fetching Search Console for country 'spain': "
      [] name = "get_google_ads_overall" -> "Error fetching Google Ads overall: "
      [] name = "get_google_ads_daily" -> "Error fetching Google Ads daily: "
      [] name = "get_google_ads_campaigns" -> "Error fetching Google Ads campaigns: "
      [] name = "get_google_ads_daily_for_campaign" ->
            "Error fetching Google Ads for campaign '123': "

\* what a tool call ends in: a returned text or a raised exception
Return(text) == [kind |-> "return", value |-> text]
Raise(exc) == [kind |-> "raise", value |-> exc]

\* except APIError as e: the analytics tools read e.message, which APIError
\* does not have; the search-console and ads tools read e.errors
except_APIError(name, e) ==
    IF name \in google_analytics_tools
    THEN Raise("AttributeError")
    ELSE Return(error_prefix(name) \o repr(e.errors))

\* the body of a data tool after its fetch: only APIError is caught
handler(name, result) ==
    CASE result.kind = "records"  -> Return(format_response(result))
      [] result.kind = "APIError" -> except_APIError(name, result)
      [] OTHER                    -> Raise(result.kind)

\* variant: the token test is skipped
has_token_unchecked(token) == TRUE

\* if not token
has_token(token) == token \notin {None, ""}

\* one execution of a data tool: its outcome, the reply it got and the HTTP
\* requests it sent
Execution(name, token, resp, fetched, result, requests) ==
    [name |-> name, token |-> token, resp |-> resp, fetched |-> fetched,
     result |-> result, requests |-> requests]

NoReply == RequestError("")
NoFetch == Raised("")

data_tool(name, token, resp) ==
    IF ~has_token(token)
    THEN Execution(name, token, NoReply, NoFetch, Return(MISSING_TOKEN), 0)
    ELSE Execution(name, token, resp, fetch(name, resp),
                   handler(name, fetch(name, resp)), attempts(resp))

(* ----------------------- ToolNode and the data tools -------------------- *)
\* a ToolCall for a data tool, with arguments that fit the tool's schema or not
DataToolCall(id, name, args) == [id |-> id, name |-> name, args |-> args]

\* the model asks for one data tool, or answers
DataResponses ==
    {AIMessage("", <<DataToolCall(1, n, a)>>) : n \in data_tools, a \in {"valid", "invalid"}}
        \cup {AIMessage("Here is the report.", <<>>)}

\* the replies the backend gives a tool: usable and unusable success bodies,
\* error envelopes, an error page, and failed connections
ToolReplies ==
    {Response(200, Object(Absent, Absent, d)) :
        d \in {"valid", "numeric_strings", "absent", "wrong_type"}}
      \cup {Response(200, NotJson("OK")), Response(200, Array),
            Response(401, Object(Str("oauth required"), Absent, "absent")),
            Response(500, Object(List(<<Str("a"), Str("b")>>), Absent, "absent")),
            Response(503, NotJson("<html>Bad Gateway</html>")),
            RequestError("ConnectError"), RequestError("ReadTimeout")}

\* ToolNode runs a ToolCall: the arguments are validated against the tool's
\* schema before the tool's body runs
invoke(call, token, resp) ==
    IF call.args = "invalid"
    THEN Execution(call.name, token, NoReply, NoFetch, Raise("ValidationError"), 0)
    ELSE data_tool(call.name, token, resp)

\* the two ways a ToolNode treats an exception of a tool, by library version:
\* every exception becomes the text of the tool result ("all"), or only a
\* failed validation of the arguments does and the others are raised again
HandleToolErrors == {"all", "invocation"}

\* the newer ToolNode handles the validation error raised from tool.invoke
handled(mode, exc) == mode = "all" \/ exc = "ValidationError"

tool_error_text(exc) == "Error: " \o exc \o " Please fix your mistakes."

NoExecution == Execution("", "", NoReply, NoFetch, Return(""), 0)

\* one fetch of a client: the tool it serves, the reply and the outcome
Fetched(name, resp, outcome) == [name |-> name, resp |-> resp, outcome |-> outcome]

NoFetched == Fetched("", NoReply, NoFetch)

(* ------------------- the requests the clients build --------------------- *)
\* a date of a tool's arguments, as <<year, month, day>>
Dates == {<<2025, 1, 1>>, <<2025, 1, 31>>}

two_digits(n) == IF n < 10 THEN "0" \o ToString(n) ELSE ToString(n)

\* date.isoformat(): YYYY-MM-DD
isoformat(d) == ToString(d[1]) \o "-" \o two_digits(d[2]) \o "-" \o two_digits(d[3])

\* a path identifier is the sequence of its characters
ascii_uppercase ==
    <<"A", "B", "C", "D", "E", "F", "G", "H", "I", "J", "K", "L", "M",
      "N", "O", "P", "Q", "R", "S", "T", "U", "V", "W", "X", "Y", "Z">>
ascii_lowercase ==
    <<"a", "b", "c", "d", "e", "f", "g", "h", "i", "j", "k", "l", "m",
      "n", "o", "p", "q", "r", "s", "t", "u", "v", "w", "x", "y", "z">>

lower_char(c) ==
    IF \E k \in 1..26 : ascii_uppercase[k] = c
    THEN ascii_lowercase[CHOOSE k \in 1..26 : ascii_uppercase[k] = c]
    ELSE c

\* str.lower()
lower(chars) == [i \in 1..Len(chars) |-> lower_char(chars[i])]

\* an endpoint: the fixed part of the path and the identifier formatted into it
Endpoint(path, segment) == [path |-> path, segment |-> segment]

\* the arguments of client.request(method, endpoint, params=params)
HttpRequest(method, endpoint, params) ==
    [method |-> method, endpoint |-> endpoint, params |-> params]

\* params = {"start_date": ..., "end_date": ...}
date_params(start_date, end_date) ==
    [start_date |-> isoformat(start_date), end_date |-> isoformat(end_date)]

\* if search: params["search"] = search
with_search(params, search) ==
    IF search \notin {None, ""} THEN params @@ [search |-> search] ELSE params

GoogleAnalyticsClient_fetch_overall_data(start_date, end_date, organic_only) ==
    HttpRequest("GET",
        Endpoint(IF organic_only THEN "/google-analytics/overall-organic-traffic"
                 ELSE "/google-analytics/overall", <<>>),
        date_params(start_date, end_date))

GoogleAnalyticsClient_fetch_daily_data_standard(start_date, end_date, organic_only) ==
    HttpRequest("GET", Endpoint("/google-analytics/daily", <<>>),
                date_params(start_date, end_date))

GoogleAnalyticsClient_fetch_daily_data(start_date, end_date, organic_only) ==
    HttpRequest("GET",
        Endpoint(IF organic_only THEN "/google-analytics/daily-organic-traffic"
                 ELSE "/google-analytics/daily", <<>>),
        date_params(start_date, end_date))

GoogleAnalyticsClient_fetch_countries_data(start_date, end_date, order_by, limit, search) ==
    HttpRequest("GET", Endpoint("/google-analytics/countries", <<>>),
        with_search(date_params(start_date, end_date)
                        @@ [order_by |-> order_by, limit |-> limit], search))

GoogleAnalyticsClient_fetch_country_detail_data(country, start_date, end_date) ==
    HttpRequest("GET", Endpoint("/google-analytics/countries/", lower(country)),
                date_params(start_date, end_date))

GoogleAnalyticsClient_fetch_pages_data(start_date, end_date, order_by, limit, search) ==
    HttpRequest("GET", Endpoint("/google-analytics/pages", <<>>),
        with_search(date_params(start_date, end_date)
                        @@ [order_by |-> order_by, limit |-> limit], search))

GoogleAnalyticsClient_fetch_page_detail_data(page_path, start_date, end_date) ==
    HttpRequest("GET", Endpoint("/google-analytics/pages/", page_path),
                date_params(start_date, end_date))

GoogleSearchConsoleClient_fetch_overall_data(start_date, end_date) ==
    HttpRequest("GET", Endpoint("/google-search-console/overall", <<>>),
                date_params(start_date, end_date))

GoogleSearchConsoleClient_fetch_daily_data(start_date, end_date) ==
    HttpRequest("GET", Endpoint("/google-search-console/daily", <<>>),
                date_params(start_date, end_date))

GoogleSearchConsoleClient_fetch_keywords_data_always_search(start_date, end_date, limit, search) ==
    HttpRequest("GET", Endpoint("/google-search-console/keywords", <<>>),
        date_params(start_date, end_date) @@ [limit |-> limit, search |-> search])

GoogleSearchConsoleClient_fetch_keywords_data(start_date, end_date, limit, search) ==
    HttpRequest("GET", Endpoint("/google-search-console/keywords", <<>>),
        with_search(date_params(start_date, end_date) @@ [limit |-> limit], search))

GoogleSearchConsoleClient_fetch_keyword_detail_data(keyword, start_date, end_date) ==
    HttpRequest("GET", Endpoint("/google-search-console/keywords/", keyword),
                date_params(start_date, end_date))

GoogleSearchConsoleClient_fetch_countries_data(start_date, end_date, limit, search) ==
    HttpRequest("GET", Endpoint("/google-search-console/countries", <<>>),
        with_search(date_params(start_date, end_date) @@ [limit |-> limit], search))

GoogleSearchConsoleClient_fetch_country_detail_data_lower(country, start_date, end_date) ==
    HttpRequest("GET", Endpoint("/google-search-console/countries/", lower(country)),
                date_params(start_date, end_date))

GoogleSearchConsoleClient_fetch_country_detail_data(country, start_date, end_date) ==
    HttpRequest("GET", Endpoint("/google-search-console/countries/", country),
                date_params(start_date, end_date))

GoogleAdsClient_fetch_overall_data(start_date, end_date) ==
    HttpRequest("GET", Endpoint("/google-ads/overall", <<>>),
                date_params(start_date, end_date))

GoogleAdsClient_fetch_daily_data(start_date, end_date) ==
    HttpRequest("GET", Endpoint("/google-ads/daily", <<>>),
                date_params(start_date, end_date))

GoogleAdsClient_fetch_campaigns_data(start_date, end_date) ==
    HttpRequest("GET", Endpoint("/google-ads/campaigns", <<>>),
                date_params(start_date, end_date))

GoogleAdsClient_fetch_campaign_detail_data(campaign_id, start_date, end_date) ==
    HttpRequest("GET", Endpoint("/google-ads/campaigns/", campaign_id),
                date_params(start_date, end_date))

\* self.headers = {"Authorization": f"Bearer {token}"}
Client(token, req) == req @@ [authorization |-> "Bearer " \o token]

(* ---------------- the arguments of a data tool's ToolCall --------------- *)
\* an argument of the ToolCall, or the default of the tool's schema
get(args, key, default) == IF key \in DOMAIN args THEN args[key] ELSE default

NoArgs == [k \in {} |-> ""]

\* TrafficInput, GscTrafficInput, AdsTrafficInput: the two dates
DateArgs == {[start_date |-> a, end_date |-> b] : a, b \in Dates}

\* TrafficInput: organic_only is optional
TrafficArgs ==
    {d @@ o : d \in DateArgs,
              o \in {NoArgs, [organic_only |-> TRUE], [organic_only |-> FALSE]}}

\* ByDimensionInput, GscByDimensionInput: limit and search are optional
ByDimensionArgs ==
    {d @@ l @@ s : d \in DateArgs, l \in {NoArgs, [limit |-> 5]},
                   s \in {NoArgs, [search |-> ""], [search |-> "BMW"]}}

Countries == {<<"S", "p", "a", "i", "n">>, <<"s", "p", "a", "i", "n">>, <<"U", "S">>}
PagePaths == {<<"/", "h", "o", "m", "e">>, <<"/", "B", "M", "W", "-", "x", "8">>}
Keywords == {<<"B", "M", "W", " ", "x", "8">>, <<"b", "m", "w">>}
CampaignIds == {<<"1", "2", "3">>, <<"Q", "4", "-", "s", "a", "l", "e">>}

CountryDetailArgs == {d @@ [country |-> c] : d \in DateArgs, c \in Countries}
PageDetailArgs == {d @@ [page_path |-> p] : d \in DateArgs, p \in PagePaths}
GscKeywordDetailArgs == {d @@ [keyword |-> k] : d \in DateArgs, k \in Keywords}
AdsCampaignDetailArgs == {d @@ [campaign_id |-> c] : d \in DateArgs, c \in CampaignIds}

traffic_tools ==
    {"get_google_analytics_overall_traffic", "get_google_analytics_daily_traffic"}
ranking_tools ==
    {"get_google_analytics_traffic_by_countries", "get_google_analytics_traffic_by_pages",
     "get_search_console_countries", "get_search_console_keywords"}
country_detail_tools ==
    {"get_google_analytics_daily_traffic_for_country", "get_search_console_daily_for_country"}
detail_tools ==
    country_detail_tools
        \cup {"get_google_analytics_daily_traffic_for_page",
              "get_search_console_daily_for_keyword", "get_google_ads_daily_for_campaign"}

\* args_schema of each data tool: the arguments that pass its validation
args_schema(name) ==
    CASE name \in traffic_tools                                 -> TrafficArgs
      [] name \in ranking_tools                                 -> ByDimensionArgs
      [] name \in country_detail_tools                          -> CountryDetailArgs
      [] name = "get_google_analytics_daily_traffic_for_page"   -> PageDetailArgs
      [] name = "get_search_console_daily_for_keyword"          -> GscKeywordDetailArgs
      [] name = "get_google_ads_daily_for_campaign"             -> AdsCampaignDetailArgs
      [] OTHER                                                  -> DateArgs

\* the fetch each data tool asks of its client, with the arguments it passes
client_call(name, a) ==
    CASE name = "get_google_analytics_overall_traffic" ->
            GoogleAnalyticsClient_fetch_overall_data(
                a.start_date, a.end_date, get(a, "organic_only", FALSE))
      [] name = "get_google_analytics_daily_traffic" ->
            GoogleAnalyticsClient_fetch_daily_data(
                a.start_date, a.end_date, get(a, "organic_only", FALSE))
      [] name = "get_google_analytics_traffic_by_countries" ->
            GoogleAnalyticsClient_fetch_countries_data(
                a.start_date, a.end_date, "desc", get(a, "limit", 10), get(a, "search", None))
      [] name = "get_google_analytics_daily_traffic_for_country" ->
            GoogleAnalyticsClient_fetch_country_detail_data(a.country, a.start_date, a.end_date)
      [] name = "get_google_analytics_traffic_by_pages" ->
            GoogleAnalyticsClient_fetch_pages_data(
                a.start_date, a.end_date, "desc", get(a, "limit", 10), get(a, "search", None))
      [] name = "get_google_analytics_daily_traffic_for_page" ->
            GoogleAnalyticsClient_fetch_page_detail_data(a.page_path, a.start_date, a.end_date)
      [] name = "get_search_console_overall" ->
            GoogleSearchConsoleClient_fetch_overall_data(a.start_date, a.end_date)
      [] name = "get_search_console_daily" ->
            GoogleSearchConsoleClient_fetch_daily_data(a.start_date, a.end_date)
      [] name = "get_search_console_keywords" ->
            GoogleSearchConsoleClient_fetch_keywords_data(
                a.start_date, a.end_date, get(a, "limit", 10), get(a, "search", None))
      [] name = "get_search_console_daily_for_keyword" ->
            GoogleSearchConsoleClient_fetch_keyword_detail_data(a.keyword, a.start_date, a.end_date)
      [] name = "get_search_console_countries" ->
            GoogleSearchConsoleClient_fetch_countries_data(
                a.start_date, a.end_date, get(a, "limit", 10), get(a, "search", None))
      [] name = "get_search_console_daily_for_country" ->
            GoogleSearchConsoleClient_fetch_country_detail_data(a.country, a.start_date, a.end_date)
      [] name = "get_google_ads_overall" ->
            GoogleAdsClient_fetch_overall_data(a.start_date, a.end_date)
      [] name = "get_google_ads_daily" ->
            GoogleAdsClient_fetch_daily_data(a.start_date, a.end_date)
      [] name = "get_google_ads_campaigns" ->
            GoogleAdsClient_fetch_campaigns_data(a.start_date, a.end_date)
      [] name = "get_google_ads_daily_for_campaign" ->
            GoogleAdsClient_fetch_campaign_detail_data(a.campaign_id, a.start_date, a.end_date)

\* one request handed to httpx, with the tool and the arguments it came from
Outbound(name, args, req) == [tool |-> name, args |-> args, request |-> req]

\* the requests a data tool sends when called with args: none without a token
tool_requests(name, token, args) ==
    IF ~has_token(token) THEN <<>>
    ELSE <<Outbound(name, args, Client(token, client_call(name, args)))>>

(* ------------------------ the exception handlers ------------------------ *)
\* return JSONResponse(status_code=..., content={"errors": errors})
JSONResponse(status_code, errors) ==
    [status |-> status_code, messages |-> <<>>, errors |-> errors]

\* a dict, with its "errors" entry or without one
Dict(errors) == [t |-> "dict", s |-> "{...}", items |-> <<>>, errors |-> errors]

\* _as_errors_list(x)
RECURSIVE _as_errors_list(_)
_as_errors_list(x) ==
    CASE x.t = "null" -> <<"An unknown error occurred.">>
      [] x.t = "list" -> non_blank(x.items)
      [] x.t = "str"  -> <<x.s>>
      [] x.t = "dict" /\ x.errors # Absent -> _as_errors_list(x.errors)
      [] OTHER        -> <<x.s>>

\* http.HTTPStatus(status_code).phrase
phrase(status_code) ==
    CASE status_code = 401 -> "Unauthorized"
      [] status_code = 403 -> "Forbidden"
      [] status_code = 404 -> "Not Found"
      [] status_code = 405 -> "Method Not Allowed"

\* StarletteHTTPException(status_code, detail): no detail means the phrase
HTTPException(status_code, detail) ==
    [kind |-> "HTTPException", status_code |-> status_code,
     detail |-> IF detail = Null THEN Str(phrase(status_code)) ELSE detail]

\* one error of a RequestValidationError: where, without "body", and what
ValidationErr(loc, msg) == [loc |-> loc, msg |-> msg]

RequestValidationError(errors) == [kind |-> "RequestValidationError", errors |-> errors]

\* ".".join(parts)
RECURSIVE join(_)
join(parts) ==
    IF parts = <<>> THEN ""
    ELSE IF Len(parts) = 1 THEN parts[1]
    ELSE parts[1] \o "." \o join(Tail(parts))

\* loc without its "body" parts
not_body(p) == p # "body"

\* _format_pydantic_errors(exc)
_format_pydantic_errors(e) ==
    LET out == [i \in 1..Len(e.errors) |->
                  (IF join(SelectSeq(e.errors[i].loc, not_body)) = "" THEN "request"
                   ELSE join(SelectSeq(e.errors[i].loc, not_body)))
                      \o ": " \o e.errors[i].msg]
    IN IF out = <<>> THEN <<"Validation Error: The request data is invalid.">> ELSE out

api_error_handler(e) ==
    JSONResponse(e.status_code,
                 _as_errors_list(List([i \in 1..Len(e.errors) |-> Str(e.errors[i])])))

http_exception_handler(e) ==
    LET message == IF e.status_code = 401 /\ e.detail = Str("Not authenticated")
                   THEN Str("Unauthorized: Missing or invalid authentication token.")
                   ELSE IF truthy(e.detail) \/ e.detail.t = "dict" THEN e.detail
                   ELSE Str("An HTTP error occurred.")
    IN JSONResponse(e.status_code, _as_errors_list(message))

validation_exception_handler(e) == JSONResponse(422, _format_pydantic_errors(e))

\* the handler main.py registers for the exception's class
exception_handler(e) ==
    CASE e.kind = "APIError"               -> api_error_handler(e)
      [] e.kind = "HTTPException"          -> http_exception_handler(e)
      [] e.kind = "RequestValidationError" -> validation_exception_handler(e)

\* the exceptions the handlers can be handed
APIErrors ==
    {APIError(s, e) : s \in ErrorStatuses,
                      e \in {<<>>, <<"oauth required">>, <<" ">>, <<"">>, <<"a", "b">>,
                             <<"a", " ">>, <<" ", "">>}}

Details ==
    {Null, Str(""), Str("Not authenticated"), Str("Invalid authentication credentials"),
     List(<<>>), List(<<Str(""), Str(" ")>>), List(<<Str("a"), Str(" ")>>),
     Dict(Str("x")), Dict(List(<<Str(" ")>>)), Dict(Absent), Num("42")}

HTTPExceptions == {HTTPException(s, d) : s \in {401, 403, 404, 405}, d \in Details}

ValidationErrs ==
    {ValidationErr(<<"body">>, "Field required"),
     ValidationErr(<<"body", "messages">>, "Field required"),
     ValidationErr(<<"body", "messages", "0", "role">>, "Field required"),
     ValidationErr(<<"body", "7">>, "JSON decode error")}

RequestValidationErrors == {RequestValidationError(e) : e \in SeqsOf(ValidationErrs, 0, 2)}

Exceptions == APIErrors \cup HTTPExceptions \cup RequestValidationErrors

(* --------------------- a request arriving on /chat ---------------------- *)
\* the Authorization header, split into its scheme and its credentials
Authorization(scheme, credentials) == [scheme |-> scheme, credentials |-> credentials]

Authorizations ==
    {Authorization("", ""), Authorization("Basic", "dXNlcg=="),
     Authorization("Bearer", ""), Authorization("Bearer", "jwt")}

\* the body sent: not JSON at all, or a JSON value with or without the
\* fields of a ChatRequest
HttpBody(json, turns) == [json |-> json, messages |-> turns]

HttpBodies ==
    {HttpBody(j, <<>>) : j \in {"invalid", "no_messages", "turn_without_role"}}
        \cup {HttpBody("ChatRequest", <<t>>) : t \in ChatTurns}

Inbound(authorization, body) == [authorization |-> authorization, body |-> body]

\* the two answers of HTTPBearer to missing credentials, by FastAPI version:
\* 403 with a cause-specific detail, or 401 "Not authenticated"
FastAPI == {"403", "401"}

Credentials(token) == [kind |-> "credentials", credentials |-> token]

\* bearer_scheme(request)
HTTPBearer(authorization, version) ==
    CASE authorization.scheme = "" \/ authorization.credentials = "" ->
            IF version = "403" THEN HTTPException(403, Str("Not authenticated"))
            ELSE HTTPException(401, Str("Not authenticated"))
      [] authorization.scheme # "Bearer" ->
            IF version = "403"
            THEN HTTPException(403, Str("Invalid authentication credentials"))
            ELSE HTTPException(401, Str("Not authenticated"))
      [] OTHER -> Credentials(authorization.credentials)

\* ChatRequest validated against the body
validate(body) ==
    CASE body.json = "invalid"           -> <<ValidationErr(<<"body", "7">>, "JSON decode error")>>
      [] body.json = "no_messages"       -> <<ValidationErr(<<"body", "messages">>, "Field required")>>
      [] body.json = "turn_without_role" ->
            <<ValidationErr(<<"body", "messages", "0", "role">>, "Field required")>>
      [] OTHER                           -> <<>>

\* FastAPI's way to the route: the body is parsed, the security dependency is
\* solved, the body is validated; the first failure is raised
solve(req, version) ==
    CASE req.body.json = "invalid" -> RequestValidationError(validate(req.body))
      [] HTTPBearer(req.authorization, version).kind = "HTTPException" ->
            HTTPBearer(req.authorization, version)
      [] validate(req.body) # <<>> -> RequestValidationError(validate(req.body))
      [] OTHER -> HTTPBearer(req.authorization, version)

(* ---------------------- requests in flight and logs --------------------- *)
\* the /chat requests in flight on the shared graph
Runs == {1, 2}

\* bearer credentials of callers
BearerTokens == {"jwt-a", "jwt-b"}

\* one /chat request being served: what the caller sent, the state and the
\* position of its graph run, what the model and the backend answered it, the
\* backend requests it sent, the records logged for it, and the response
Chat(turns, token) ==
    [request |-> turns, token |-> token, messages |-> <<>>, pc |-> "request",
     step |-> 0, answers |-> <<>>, outbound |-> <<>>, log |-> <<>>,
     response |-> NoResponse]

Answer(kind, value) == [kind |-> kind, value |-> value]

\* variant: the token is kept in one place for all requests
config_shared(cs, r) == cs[1].token

\* config["configurable"]["auth_token"] of the run's own invocation
config_of(cs, r) == cs[r].token

\* a record on a logger; corr stands for the request's correlation id
LogRecord(corr, event, tool, text) ==
    [corr |-> corr, event |-> event, tool |-> tool, text |-> text]

\* AuditJSONHandler: the root chain's start and end log the type of the state
on_chain_start(corr) == LogRecord(corr, "chain.start", "", "dict")
on_chain_end(corr) == LogRecord(corr, "chain.end", "", "dict")

\* the prompts are cut to their first characters, which are the system prompt's
on_llm_start(corr) == LogRecord(corr, "llm.start", "", system_prompt)
on_llm_end(corr, response) == LogRecord(corr, "llm.end", "", response.content)

on_tool_start(corr, call) == LogRecord(corr, "tool.start", call.name, call.args)
on_tool_end(corr, name, output) == LogRecord(corr, "tool.end", name, output)

\* variant: the client logs its headers
request_log_with_headers(corr, req) == LogRecord(corr, "request", "", req.authorization)

\* logger.info(f"Making request to {endpoint} with params: {params}")
request_log(corr, req) == LogRecord(corr, "request", "", req.endpoint.path)

\* logger.error(f"[GA] HTTP error: ..."), logger.error(f"[GA] Request error: {e}")
error_log(corr, e) == LogRecord(corr, "error", "", repr(e.errors))

\* the arguments of a ToolCall that fits the tool's schema
ValidArgs(name) == CHOOSE a \in args_schema(name) : TRUE

\* what the model answers a request in flight: a data ToolCall, or text
PairResponses ==
    {AIMessage("", <<DataToolCall(1, n, "valid")>>) :
        n \in {"get_google_ads_overall", "get_google_analytics_daily_traffic_for_country"}}
      \cup {AIMessage("Here is the report.", <<>>)}

\* what the backend answers
PairReplies ==
    {Response(200, Object(Absent, Absent, "valid")),
     Response(401, Object(Str("oauth required"), Absent, "absent")),
     RequestError("ConnectError")}

\* the records one tool execution leaves on the loggers
tool_logs(corr, call, e, reqs) ==
    <<on_tool_start(corr, call)>>
        \o [i \in 1..Len(reqs) |-> request_log(corr, reqs[i].request)]
        \o (IF e.fetched.kind = "APIError" THEN <<error_log(corr, e.fetched)>> ELSE <<>>)
        \o (IF e.result.kind = "return"
            THEN <<on_tool_end(corr, call.name, e.result.value)>> ELSE <<>>)

\* no HTTP request received, no exception handed to the handlers
NoInbound == [authorization |-> "", body |-> ""]
NoException == [kind |-> ""]

(* ------------------------------- state ---------------------------------- *)
VARIABLES
    request,     \* the caller-supplied chat turns
    messages,    \* ChatState["messages"] of the run
    pc,          \* "request", "chat_node", "tool_node", "__end__", "out_of_steps", "rejected"
    step,        \* supersteps the graph has executed
    runs,        \* finished tool runs of the latest tool turn, in completion order
    response,    \* the HTTP response sent to the caller
    modelTurns,  \* model turns performed
    toolTurns,   \* tool turns performed
    auth_token,  \* config["configurable"]["auth_token"] of the run
    handle_tool_errors,  \* how the ToolNode of this build treats a tool's exception
    sent,        \* the HTTP requests sent to the backend, by tool name
    executed,    \* the latest execution of a data tool
    fetched,     \* the latest fetch made on a client directly
    outbound,    \* the HTTP requests handed to httpx, in order
    model_input, \* the messages sent to the model on the latest model turn
    chats,       \* the /chat requests in flight on the shared graph
    inbound,     \* the HTTP request received on /chat
    exc          \* the exception handed to the app's exception handlers

vars == <<request, messages, pc, step, runs, response, modelTurns, toolTurns,
          auth_token, handle_tool_errors, sent, executed, fetched,
          outbound, model_input, chats, inbound, exc>>

\* the state of the tools and clients
toolvars == <<auth_token, handle_tool_errors, sent, executed, fetched>>

\* the state of the HTTP boundary and of the requests in flight
edgevars == <<outbound, chats, inbound, exc>>

\* nothing received or sent yet
EdgeInit ==
    /\ outbound = <<>>
    /\ model_input = <<>>
    /\ chats = <<>>
    /\ inbound = NoInbound
    /\ exc = NoException

Init ==
    /\ request \in Requests
    /\ messages = <<>>
    /\ pc = "request"
    /\ step = 0
    /\ runs = <<>>
    /\ response = NoResponse
    /\ modelTurns = 0
    /\ toolTurns = 0
    /\ auth_token = "jwt"
    /\ handle_tool_errors = "all"
    /\ sent = <<>>
    /\ executed = NoExecution
    /\ fetched = NoFetched
    /\ EdgeInit

\* chat_with_agent up to the first node: the request's turns become the state
chat_with_agent ==
    /\ pc = "request"
    /\ IF coercible(request)
       THEN /\ messages' = add_messages(<<>>, convert_to_messages(request))
            /\ pc' = "chat_node"
            /\ response' = response
       ELSE /\ messages' = messages
            /\ pc' = "rejected"
            /\ response' = InternalServerError
    /\ UNCHANGED <<request, step, runs, modelTurns, toolTurns>>
    /\ UNCHANGED toolvars
    /\ UNCHANGED <<edgevars, model_input>>

\* the chat node: one model turn, the reducer, the routing edge and the loop's tick
chat_node(r) ==
    /\ pc = "chat_node"
    /\ messages' = add_messages(messages, chatbot(r))
    /\ step' = step + 1
    /\ modelTurns' = modelTurns + 1
    /\ pc' = tick(step', should_continue(messages'))
    /\ runs' = <<>>
    /\ response' = reply(pc', messages')
    /\ model_input' = llm_input(messages)
    /\ UNCHANGED <<request, toolTurns>>
    /\ UNCHANGED toolvars
    /\ UNCHANGED edgevars

\* the ToolCalls of the last assistant message that are still running
running ==
    IF pc = "tool_node"
    THEN (1..Len(messages[Len(messages)].tool_calls)) \ finished(runs)
    ELSE {}

\* one ToolCall of the last assistant message finishes, in any order
tool_run(i) ==
    /\ pc = "tool_node"
    /\ i \in running
    /\ \E text \in run_tool(messages[Len(messages)].tool_calls[i].name) :
          runs' = Append(runs, ToolRun(i, text))
    /\ UNCHANGED <<request, messages, pc, step, response, modelTurns, toolTurns>>
    /\ UNCHANGED toolvars
    /\ UNCHANGED <<edgevars, model_input>>

\* the tool node returns: its batch is appended and the loop ticks
tool_node_end ==
    /\ pc = "tool_node"
    /\ running = {}
    /\ messages' = add_messages(messages, tool_node(messages[Len(messages)].tool_calls, runs))
    /\ step' = step + 1
    /\ toolTurns' = toolTurns + 1
    /\ pc' = tick(step', tool_node_edge)
    /\ response' = reply(pc', messages')
    /\ UNCHANGED <<request, runs, modelTurns>>
    /\ UNCHANGED toolvars
    /\ UNCHANGED <<edgevars, model_input>>

\* runs in which the model gives any response, within MaxToolCalls ToolCalls
Next ==
    \/ chat_with_agent
    \/ \E r \in RichResponses :
          /\ issued(messages) + Len(r.tool_calls) <= MaxToolCalls
          /\ chat_node(r)
    \/ \E i \in running : tool_run(i)
    \/ tool_node_end

Spec == Init /\ [][Next]_vars

\* runs in which the model keeps asking for the time, for as long as it likes
LongNext ==
    \/ chat_with_agent
    \/ \E r \in PlainResponses : chat_node(r)
    \/ \E i \in running : tool_run(i)
    \/ tool_node_end

LongSpec == Init /\ [][LongNext]_vars

(* ------------------- runs that call the data tools ---------------------- *)
\* data ToolCalls the model issues in one run
MaxDataCalls == 1

\* a run of the graph for one user message, under any config and either
\* kind of ToolNode
ToolInit ==
    /\ request = <<ChatTurn("user", "Top 3 pages last week")>>
    /\ messages = <<>>
    /\ pc = "request"
    /\ step = 0
    /\ runs = <<>>
    /\ response = NoResponse
    /\ modelTurns = 0
    /\ toolTurns = 0
    /\ auth_token \in Tokens
    /\ handle_tool_errors \in HandleToolErrors
    /\ sent = <<>>
    /\ executed = NoExecution
    /\ fetched = NoFetched
    /\ EdgeInit

\* ToolCall i of the last assistant message is run by the ToolNode: the tool
\* sends its request, gets resp and returns or raises; an exception the
\* ToolNode does not handle ends the graph run and the request with it
data_tool_run(i, resp) ==
    /\ pc = "tool_node"
    /\ i \in running
    /\ LET call == messages[Len(messages)].tool_calls[i]
           e == invoke(call, auth_token, resp)
       IN /\ executed' = e
          /\ sent' = sent \o [k \in 1..e.requests |-> call.name]
          /\ CASE e.result.kind = "return" ->
                    /\ runs' = Append(runs, ToolRun(i, e.result.value))
                    /\ UNCHANGED <<pc, response>>
               [] e.result.kind = "raise" /\ handled(handle_tool_errors, e.result.value) ->
                    /\ runs' = Append(runs, ToolRun(i, tool_error_text(e.result.value)))
                    /\ UNCHANGED <<pc, response>>
               [] OTHER ->
                    /\ runs' = runs
                    /\ pc' = "tool_error"
                    /\ response' = InternalServerError
    /\ UNCHANGED <<request, messages, step, modelTurns, toolTurns>>
    /\ UNCHANGED <<auth_token, handle_tool_errors, fetched>>
    /\ UNCHANGED <<edgevars, model_input>>

ToolNext ==
    \/ chat_with_agent
    \/ \E r \in DataResponses :
          /\ issued(messages) + Len(r.tool_calls) <= MaxDataCalls
          /\ chat_node(r)
    \/ \E i \in running, resp \in ToolReplies : data_tool_run(i, resp)
    \/ tool_node_end

ToolSpec == ToolInit /\ [][ToolNext]_vars

(* ---------------------- one fetch of a backend client ------------------- *)
ClientInit ==
    /\ request = <<>>
    /\ messages = <<>>
    /\ pc = "client"
    /\ step = 0
    /\ runs = <<>>
    /\ response = NoResponse
    /\ modelTurns = 0
    /\ toolTurns = 0
    /\ auth_token = "jwt"
    /\ handle_tool_errors = "all"
    /\ sent = <<>>
    /\ executed = NoExecution
    /\ fetched = NoFetched
    /\ EdgeInit

\* the client of the tool's family fetches the tool's endpoint and gets resp
client_fetch(name, resp) ==
    /\ pc = "client"
    /\ fetched' = Fetched(name, resp, fetch(name, resp))
    /\ sent' = sent \o [k \in 1..attempts(resp) |-> name]
    /\ pc' = "fetched"
    /\ UNCHANGED <<request, messages, step, runs, response, modelTurns, toolTurns>>
    /\ UNCHANGED <<auth_token, handle_tool_errors, executed>>
    /\ UNCHANGED <<edgevars, model_input>>

ClientNext == \E name \in data_tools, resp \in Replies : client_fetch(name, resp)

ClientSpec == ClientInit /\ [][ClientNext]_vars

(* ------------------ one data tool called with arguments ----------------- *)
RequestInit ==
    /\ request = <<>>
    /\ messages = <<>>
    /\ pc = "tool"
    /\ step = 0
    /\ runs = <<>>
    /\ response = NoResponse
    /\ modelTurns = 0
    /\ toolTurns = 0
    /\ auth_token \in Tokens
    /\ handle_tool_errors = "all"
    /\ sent = <<>>
    /\ executed = NoExecution
    /\ fetched = NoFetched
    /\ EdgeInit

\* the tool's body up to the request its client hands to httpx
tool_request(name, args) ==
    /\ pc = "tool"
    /\ outbound' = outbound \o tool_requests(name, auth_token, args)
    /\ pc' = "requested"
    /\ UNCHANGED <<request, messages, step, runs, response, modelTurns, toolTurns>>
    /\ UNCHANGED toolvars
    /\ UNCHANGED <<model_input, chats, inbound, exc>>

RequestNext ==
    \E name \in data_tools : \E args \in args_schema(name) : tool_request(name, args)

RequestSpec == RequestInit /\ [][RequestNext]_vars

(* ------------------ an exception handed to the handlers ----------------- *)
HandlerInit ==
    /\ request = <<>>
    /\ messages = <<>>
    /\ pc = "raised"
    /\ step = 0
    /\ runs = <<>>
    /\ response = NoResponse
    /\ modelTurns = 0
    /\ toolTurns = 0
    /\ auth_token = "jwt"
    /\ handle_tool_errors = "all"
    /\ sent = <<>>
    /\ executed = NoExecution
    /\ fetched = NoFetched
    /\ outbound = <<>>
    /\ model_input = <<>>
    /\ chats = <<>>
    /\ inbound = NoInbound
    /\ exc \in Exceptions

\* the registered handler turns the exception into the response
handle ==
    /\ pc = "raised"
    /\ response' = exception_handler(exc)
    /\ pc' = "handled"
    /\ UNCHANGED <<request, messages, step, runs, modelTurns, toolTurns>>
    /\ UNCHANGED toolvars
    /\ UNCHANGED <<edgevars, model_input>>

HandlerNext == handle

HandlerSpec == HandlerInit /\ [][HandlerNext]_vars

(* ------------------- a request on its way to the loop ------------------- *)
HttpInit ==
    /\ request = <<>>
    /\ messages = <<>>
    /\ pc = "http"
    /\ step = 0
    /\ runs = <<>>
    /\ response = NoResponse
    /\ modelTurns = 0
    /\ toolTurns = 0
    /\ auth_token = None
    /\ handle_tool_errors = "all"
    /\ sent = <<>>
    /\ executed = NoExecution
    /\ fetched = NoFetched
    /\ outbound = <<>>
    /\ model_input = <<>>
    /\ chats = <<>>
    /\ inbound \in {Inbound(a, b) : a \in Authorizations, b \in HttpBodies}
    /\ exc = NoException

\* FastAPI takes the request to the route, or raises and answers through the
\* registered handler
receive(version) ==
    /\ pc = "http"
    /\ LET r == solve(inbound, version)
       IN IF r.kind = "credentials"
          THEN /\ request' = inbound.body.messages
               /\ auth_token' = r.credentials
               /\ pc' = "request"
               /\ UNCHANGED <<response, exc>>
          ELSE /\ exc' = r
               /\ response' = exception_handler(r)
               /\ pc' = "handled"
               /\ UNCHANGED <<request, auth_token>>
    /\ UNCHANGED <<messages, step, runs, modelTurns, toolTurns>>
    /\ UNCHANGED <<handle_tool_errors, sent, executed, fetched>>
    /\ UNCHANGED <<outbound, model_input, chats, inbound>>

HttpNext ==
    \/ \E version \in FastAPI : receive(version)
    \/ chat_with_agent
    \/ \E r \in PlainResponses : chat_node(r)
    \/ \E i \in running : tool_run(i)
    \/ tool_node_end

HttpSpec == HttpInit /\ [][HttpNext]_vars

(* ---------------- two requests on the shared compiled graph ------------- *)
\* data ToolCalls the model issues in one of two concurrent runs
MaxPairCalls == 1

PairInit ==
    /\ request = <<>>
    /\ messages = <<>>
    /\ pc = "serving"
    /\ step = 0
    /\ runs = <<>>
    /\ response = NoResponse
    /\ modelTurns = 0
    /\ toolTurns = 0
    /\ auth_token = None
    /\ handle_tool_errors \in HandleToolErrors
    /\ sent = <<>>
    /\ executed = NoExecution
    /\ fetched = NoFetched
    /\ outbound = <<>>
    /\ model_input = <<>>
    /\ chats \in {<<Chat(<<ChatTurn("user", "Top 3 pages last week")>>, "jwt-a"), c>> :
                      c \in {Chat(<<ChatTurn("user", u)>>, t) :
                                 u \in {"Top 3 pages last week", "And last month?"},
                                 t \in BearerTokens}}
    /\ inbound = NoInbound
    /\ exc = NoException

PairUnchanged ==
    /\ UNCHANGED <<request, messages, pc, step, runs, response, modelTurns, toolTurns>>
    /\ UNCHANGED <<auth_token, handle_tool_errors, sent, executed, fetched>>
    /\ UNCHANGED <<outbound, model_input, inbound, exc>>

\* a run's state once its graph run has ended in status p
ended(c, p, msgs) ==
    [c EXCEPT !.messages = msgs, !.pc = p, !.step = c.step + 1,
              !.response = IF p \in {"__end__", "out_of_steps"}
                           THEN reply(p, msgs) ELSE c.response]

\* the route of request r starts its graph run
pair_chat_with_agent(r) ==
    /\ chats[r].pc = "request"
    /\ chats' = [chats EXCEPT ![r].messages =
                                  add_messages(<<>>, convert_to_messages(chats[r].request)),
                              ![r].pc = "chat_node",
                              ![r].log = <<on_chain_start(r)>>]
    /\ PairUnchanged

\* a model turn of request r
pair_chat_node(r, resp) ==
    /\ chats[r].pc = "chat_node"
    /\ LET c == chats[r]
           msgs == add_messages(c.messages, chatbot(resp))
           p == tick(c.step + 1, should_continue(msgs))
       IN chats' = [chats EXCEPT ![r] =
                      [ended(c, p, msgs) EXCEPT
                          !.answers = Append(c.answers, Answer("model", resp)),
                          !.log = c.log \o <<on_llm_start(r), on_llm_end(r, resp)>>
                                    \o (IF p = "__end__" THEN <<on_chain_end(r)>>
                                        ELSE <<>>)]]
    /\ PairUnchanged

\* the tool turn of request r: its ToolCall runs with the run's config and
\* the backend answers resp
pair_tool_node(r, resp) ==
    /\ chats[r].pc = "tool_node"
    /\ LET c == chats[r]
           call == c.messages[Len(c.messages)].tool_calls[1]
           token == config_of(chats, r)
           e == invoke(call, token, resp)
           reqs == IF e.requests > 0
                   THEN tool_requests(call.name, token, ValidArgs(call.name)) ELSE <<>>
           text == IF e.result.kind = "return" THEN e.result.value
                   ELSE tool_error_text(e.result.value)
           msgs == add_messages(c.messages, tool_node(<<call>>, <<ToolRun(1, text)>>))
           answered == [c EXCEPT !.answers = Append(c.answers, Answer("backend", resp)),
                                 !.outbound = c.outbound \o reqs,
                                 !.log = c.log \o tool_logs(r, call, e, reqs)]
       IN IF e.result.kind = "return" \/ handled(handle_tool_errors, e.result.value)
          THEN chats' = [chats EXCEPT ![r] =
                            ended(answered, tick(c.step + 1, tool_node_edge), msgs)]
          ELSE chats' = [chats EXCEPT ![r] =
                            [answered EXCEPT !.pc = "tool_error",
                                             !.response = InternalServerError]]
    /\ PairUnchanged

PairNext ==
    \/ \E r \in Runs : pair_chat_with_agent(r)
    \/ \E r \in Runs, resp \in PairResponses :
          /\ issued(chats[r].messages) + Len(resp.tool_calls) <= MaxPairCalls
          /\ pair_chat_node(r, resp)
    \/ \E r \in Runs, resp \in PairReplies : pair_tool_node(r, resp)

PairSpec == PairInit /\ [][PairNext]_vars


(* ======================================================================= *)
(*                               properties                                *)
(* ======================================================================= *)
Last(msgs) == msgs[Len(msgs)]

\* an assistant message that carries ToolCalls
IsToolRequest(m) == m.type = "ai" /\ Len(m.tool_calls) > 0

\* every ToolCall of every assistant message of msgs is answered by exactly
\* one tool result, in the batch right after the message and in call order,
\* and every tool result answers a ToolCall of the assistant message before
\* its batch
NoOrphanToolCalls(msgs) ==
    /\ \A p \in 1..Len(msgs) :
          IsToolRequest(msgs[p]) =>
             LET calls == msgs[p].tool_calls
                 n == Len(calls)
             IN /\ p + n <= Len(msgs)
                /\ \A k \in 1..n :
                      /\ msgs[p + k].type = "tool"
                      /\ msgs[p + k].tool_call_id = calls[k].id
                      /\ Cardinality({q \in (p + 1)..(p + n) :
                                         msgs[q].tool_call_id = calls[k].id}) = 1
                /\ (p + n < Len(msgs) => msgs[p + n + 1].type # "tool")
    /\ \A q \in 1..Len(msgs) :
          msgs[q].type = "tool" =>
             \E p \in 1..(q - 1) :
                /\ IsToolRequest(msgs[p])
                /\ q - p <= Len(msgs[p].tool_calls)
                /\ msgs[q].tool_call_id = msgs[p].tool_calls[q - p].id
                /\ \A r \in (p + 1)..q : msgs[r].type = "tool"

\* C1: No orphan ToolCalls -- whenever the history is sent to the model and
\* at DONE, every ToolCall id of an assistant message has exactly one tool
\* result with that id in the batch right after that message, the results of
\* a batch are in the order of the ToolCalls, and no tool result refers to an
\* id that was not issued.
C1_NoOrphanToolCalls ==
    /\ (pc = "chat_node" => NoOrphanToolCalls(llm_input(messages)))
    /\ (pc = "__end__" => NoOrphanToolCalls(messages))

\* a finished run whose history holds a batch of two results answering ids
\* that the model issued in descending order
C1_Witness ==
    /\ pc = "__end__"
    /\ \E p \in 1..Len(messages) :
          /\ IsToolRequest(messages[p])
          /\ Len(messages[p].tool_calls) = 2
          /\ messages[p].tool_calls[1].id > messages[p].tool_calls[2].id
          /\ messages[p + 2].type = "tool"

\* the messages the loop itself added: everything after the caller's turns
LoopMessages == SubSeq(messages, Len(request) + 1, Len(messages))

\* model responses and tool batches alternate, ending with a plain response
Alternates(msgs) ==
    /\ Len(msgs) > 0
    /\ msgs[1].type = "ai"
    /\ \A p \in 1..Len(msgs) :
          /\ msgs[p].type \in {"ai", "tool"}
          /\ (msgs[p].type = "ai" /\ ~IsToolRequest(msgs[p])) => p = Len(msgs)
          /\ IsToolRequest(msgs[p]) =>
                LET n == Len(msgs[p].tool_calls)
                IN /\ p + n + 1 <= Len(msgs)
                   /\ \A k \in 1..n : msgs[p + k].type = "tool"
                   /\ msgs[p + n + 1].type = "ai"
          /\ (msgs[p].type = "ai" /\ p > 1) => msgs[p - 1].type = "tool"

C2_State ==
    /\ toolTurns <= modelTurns
    /\ modelTurns <= toolTurns + 1
    /\ pc = "tool_node" => (modelTurns = toolTurns + 1 /\ IsToolRequest(Last(messages)))
    /\ pc = "chat_node" => modelTurns = toolTurns
    /\ pc = "__end__" => Alternates(LoopMessages)

C2_Step ==
    \* a tool turn ends only in a model turn (or in the loop's abort), never in
    \* DONE and never in another tool turn
    /\ (pc = "tool_node" /\ pc' # "tool_node") =>
          /\ pc' \in {"chat_node", "out_of_steps"}
          /\ toolTurns' = toolTurns + 1
          /\ Len(messages') = Len(messages) + Len(Last(messages).tool_calls)
    \* a tool turn starts only from a model turn whose response carried ToolCalls
    /\ (pc # "tool_node" /\ pc' = "tool_node") =>
          /\ pc = "chat_node"
          /\ modelTurns' = modelTurns + 1
          /\ IsToolRequest(Last(messages'))
    \* a model turn never runs while a ToolCall is unanswered
    /\ modelTurns' # modelTurns =>
          /\ pc = "chat_node"
          /\ NoOrphanToolCalls(messages)
          /\ toolTurns = modelTurns

C3_Step ==
    /\ modelTurns' # modelTurns =>
          /\ Len(messages') = Len(messages) + 1
          /\ SubSeq(messages', 1, Len(messages)) = messages
          /\ Last(messages').type = "ai"
          /\ IsToolRequest(Last(messages')) => pc' = "tool_node"
          /\ ~IsToolRequest(Last(messages')) => pc' = "__end__"
    /\ (pc # "__end__" /\ pc' = "__end__") =>
          /\ modelTurns' = modelTurns + 1
          /\ ~IsToolRequest(Last(messages'))

\* C3: Routing rule -- after each model turn the response is appended to the
\* history first; if it carries ToolCalls (even with empty content) the loop
\* moves to EXECUTE_TOOLS, if it carries none the loop moves to DONE and the
\* response is the last message of the history; DONE is reached in no other
\* way.
C3_Routing ==
    /\ [][C3_Step]_vars
    /\ [](pc = "__end__" => (Last(messages).type = "ai" /\ ~IsToolRequest(Last(messages))))

\* a finished run in which a response with ToolCalls and empty content was
\* routed to the tools
C3_Witness ==
    /\ pc = "__end__"
    /\ \E p \in 1..Len(messages) : IsToolRequest(messages[p]) /\ messages[p].content = ""

\* the model responses of the history that carried ToolCalls
ToolRequests(msgs) == SelectSeq(msgs, IsToolRequest)

\* the largest n for which n tool turns and n+1 model turns fit in the limit
MaxCompleteToolTurns == (RecursionLimit - 1) \div 2

C4_State ==
    /\ pc = "__end__" =>
          /\ toolTurns = Len(ToolRequests(messages))
          /\ modelTurns = toolTurns + 1
          /\ toolTurns <= MaxCompleteToolTurns
          /\ response.status = 200
    /\ pc = "out_of_steps" =>
          /\ Len(ToolRequests(messages)) = MaxCompleteToolTurns + 1
          /\ modelTurns = MaxCompleteToolTurns + 1
          /\ response.status = 500
    /\ toolTurns <= MaxCompleteToolTurns + 1

C4_Step ==
    (modelTurns' # modelTurns /\ ~IsToolRequest(Last(messages'))) =>
        /\ pc' = "__end__"
        /\ modelTurns <= MaxCompleteToolTurns

\* C4 (as stated): for every n the loop reaches DONE after n tool turns; at no
\* iteration count does the loop abort on its own.
C4_NeverAbortsOnItsOwn == pc # "out_of_steps"

\* C4 (amended): for every n with 2n+1 <= 25 (n <= 12), if the model requests
\* tools on its first n turns and then answers without ToolCalls, the loop
\* performs exactly n tool turns and n+1 model turns and reaches DONE with
\* that answer; a model that requests tools on each of its first 13 turns
\* exhausts the graph's recursion limit and the run is aborted.
C4_BoundedByRecursionLimit == [](C4_State) /\ [][C4_Step]_vars

\* the longest run that still reaches DONE: 12 tool turns, 13 model turns
C4_Witness ==
    /\ pc = "__end__"
    /\ toolTurns = MaxCompleteToolTurns
    /\ modelTurns = MaxCompleteToolTurns + 1

\* the tool results at the end of the history, one for each finished run
LastBatch == SubSeq(messages, Len(messages) - Len(runs) + 1, Len(messages))

\* C5: when the ToolCalls of one model turn complete in any order, the tool
\* results appended to the history are in the order of the originating
\* ToolCalls: the k-th result carries the id of the k-th ToolCall and the
\* text that the run of the k-th ToolCall produced.
C5_ResultOrder ==
    (pc \in {"chat_node", "out_of_steps"} /\ toolTurns > 0) =>
        LET calls == messages[Len(messages) - Len(runs)].tool_calls
        IN /\ Len(calls) = Len(runs)
           /\ \A k \in 1..Len(runs) :
                 /\ LastBatch[k].type = "tool"
                 /\ LastBatch[k].tool_call_id = calls[k].id
                 /\ \E j \in 1..Len(runs) :
                       /\ runs[j].index = k
                       /\ runs[j].content = LastBatch[k].content

\* a batch was appended whose second ToolCall finished first, with a
\* different text than the first
C5_Witness ==
    /\ pc = "chat_node"
    /\ Len(runs) = 2
    /\ runs[1].index = 2
    /\ runs[1].content # runs[2].content
    /\ LastBatch[1].content = runs[2].content


C6_Step ==
    toolTurns' # toolTurns =>
        LET calls == Last(messages).tool_calls
            n == Len(calls)
            unknown(k) == calls[k].name \notin all_tools
        IN /\ Len(messages') = Len(messages) + n
           /\ \A k \in 1..n :
                 /\ messages'[Len(messages) + k].type = "tool"
                 /\ messages'[Len(messages) + k].tool_call_id = calls[k].id
                 /\ unknown(k) =>
                       messages'[Len(messages) + k].content = INVALID_TOOL_NAME_ERROR
           /\ (\E k \in 1..n : unknown(k)) =>
                 /\ pc' = "chat_node" \/ step' > RecursionLimit
                 /\ pc' = "chat_node" => response' = NoResponse

\* C6: a ToolCall whose name is not among the 17 registered tools produces a
\* tool result carrying an error text for that call id; every other ToolCall
\* of the turn is answered as well, the run is not aborted for it, and control
\* returns to the model turn.
C6_UnknownTool == [](Cardinality(all_tools) = 17) /\ [][C6_Step]_vars

\* a batch of two results was appended: the error for an unregistered name
\* and the output of a registered tool, and the model is asked again
C6_Witness ==
    /\ pc = "chat_node"
    /\ Len(runs) = 2
    /\ \E k \in 1..2 :
          /\ LastBatch[k].content = INVALID_TOOL_NAME_ERROR
          /\ LastBatch[3 - k].content \in get_google_ads_overall

IsSystemTurn(t) == t.role = "system"

\* C7 (as stated): for every history, also one whose caller-supplied turns
\* contain a system-role message, no message of the public output has role
\* tool-result or system, and none carries a ToolCalls list.
C7_NoToolNoSystem ==
    pc = "__end__" =>
        \A i \in 1..Len(response.messages) :
           /\ response.messages[i].role \notin {"tool", "system"}
           /\ "tool_calls" \notin DOMAIN response.messages[i]

\* C7 (amended): no message of the public output has role tool-result and
\* none carries a ToolCalls list; the messages of role system in the output
\* are exactly the caller-supplied system turns, in order, and none of them
\* is the injected system prompt.
C7_NoToolOnlyCallerSystem ==
    pc = "__end__" =>
        /\ response.status = 200
        /\ \A i \in 1..Len(response.messages) :
              /\ response.messages[i].role \in {"user", "assistant", "system"}
              /\ DOMAIN response.messages[i] = {"role", "content"}
              /\ response.messages[i] # PublicTurn("system", system_prompt)
        /\ SelectSeq(response.messages, IsSystemTurn) = SelectSeq(request, IsSystemTurn)

\* a finished run of a request with a system turn, whose history holds tool
\* results and a response with ToolCalls
C7_Witness ==
    /\ pc = "__end__"
    /\ \E i \in 1..Len(request) : request[i].role = "system"
    /\ \E p \in 1..Len(messages) : messages[p].type = "tool"
    /\ \E p \in 1..Len(messages) : IsToolRequest(messages[p]) /\ messages[p].content # ""

RoleOf(type) ==
    CASE type = "human"  -> "user"
      [] type = "ai"     -> "assistant"
      [] type = "system" -> "system"

RECURSIVE PublicSubsequence(_)
\* msgs without its tool results and without its assistant messages that
\* carry ToolCalls and have empty content, as {role, content} turns
PublicSubsequence(msgs) ==
    IF msgs = <<>> THEN <<>>
    ELSE LET m == Head(msgs)
             rest == PublicSubsequence(Tail(msgs))
         IN IF m.type = "tool" \/ (IsToolRequest(m) /\ m.content = "")
            THEN rest
            ELSE <<[role |-> RoleOf(m.type), content |-> m.content]>> \o rest

\* C8: the visibility filter returns exactly the subsequence of the history,
\* in the original order, that remains after removing every tool result and
\* every assistant message that carries ToolCalls and has empty content; an
\* assistant message with ToolCalls and non-empty content and an assistant
\* message with empty content and no ToolCalls are both retained.
C8_FilterIsSubsequence ==
    pc = "__end__" =>
        response = [status |-> 200, messages |-> PublicSubsequence(messages)]

\* a finished run whose history holds an empty assistant message without
\* ToolCalls, a response with ToolCalls and text, a response with ToolCalls
\* and no text, and tool results
C8_Witness ==
    /\ pc = "__end__"
    /\ \E p \in 1..Len(messages) :
          messages[p].type = "ai" /\ messages[p].content = "" /\ ~IsToolRequest(messages[p])
    /\ \E p \in 1..Len(messages) : IsToolRequest(messages[p]) /\ messages[p].content # ""
    /\ \E p \in 1..Len(messages) : IsToolRequest(messages[p]) /\ messages[p].content = ""
    /\ \E p \in 1..Len(messages) : messages[p].type = "tool"
    /\ Len(response.messages) = 3

\* C9: visibility filter idempotence -- the public output of a run, read
\* again as a history of {role, content} messages and filtered again, is the
\* same list.
C9_FilterIdempotent ==
    pc = "__end__" =>
        /\ coercible(response.messages)
        /\ to_public_messages(convert_to_messages(response.messages)) = response.messages

\* a finished run whose filter removed messages and whose public output holds
\* an assistant turn with empty content
C9_Witness ==
    /\ pc = "__end__"
    /\ 0 < Len(response.messages)
    /\ Len(response.messages) < Len(messages)
    /\ \E i \in 1..Len(response.messages) :
          response.messages[i] = PublicTurn("assistant", "")

\* a request of one user message that took at least one tool turn
SingleUserRun ==
    /\ pc = "__end__"
    /\ Len(request) = 1
    /\ request[1].role = "user"
    /\ toolTurns >= 1

FinalReply == PublicTurn("assistant", Last(messages).content)

\* C10 (as stated): for a request of a single user message with one or more
\* tool-requesting turns, the public history is exactly [the user message,
\* the final assistant reply].
C10_OnlyUserAndFinalReply ==
    SingleUserRun => response.messages = <<request[1], FinalReply>>

HasText(m) == IsToolRequest(m) /\ m.content # ""

\* the tool-requesting responses of the run that also carried text
NarratedRequests == SelectSeq(messages, HasText)

\* C10 (amended): for such a request the public history is the user message,
\* then every tool-requesting response that carried non-empty content (as an
\* assistant turn, in order), then the final assistant reply; it holds no
\* tool result and no tool-requesting response with empty content, and it is
\* exactly [user message, final reply] when every tool-requesting response
\* had empty content.
C10_UserNarrationAndFinalReply ==
    SingleUserRun =>
        /\ response.messages =
              <<request[1]>>
                 \o [k \in 1..Len(NarratedRequests) |->
                        PublicTurn("assistant", NarratedRequests[k].content)]
                 \o <<FinalReply>>
        /\ NarratedRequests = <<>> => response.messages = <<request[1], FinalReply>>

\* such a run with two tool turns whose first tool-requesting response
\* carried text
C10_Witness ==
    /\ SingleUserRun
    /\ toolTurns >= 2
    /\ Len(NarratedRequests) = 1
    /\ Len(response.messages) = 3

\* C11: the injected system instructions are never part of the response
\* returned to the caller: the prompt is sent to the model on every turn but
\* is never stored in the history, and no message of the public output of any
\* run is the orchestration system prompt.
C11_PromptNeverReturned ==
    /\ \A p \in 1..Len(messages) :
          messages[p] # SystemMessage(system_prompt) /\ messages[p].content # system_prompt
    /\ \A i \in 1..Len(response.messages) :
          /\ response.messages[i] # convert_message(SystemMessage(system_prompt))
          /\ response.messages[i].content # system_prompt

\* a run that sent the prompt to the model on three turns, for a request with
\* a system turn of the caller, and returned a public output holding that turn
C11_Witness ==
    /\ pc = "__end__"
    /\ modelTurns >= 3
    /\ Head(llm_input(messages)) = SystemMessage(system_prompt)
    /\ response.status = 200
    /\ \E i \in 1..Len(response.messages) : IsSystemTurn(response.messages[i])

(* -------------------- properties of the data tools ---------------------- *)
\* a step in which the ToolNode ran the ToolCall of the last assistant message
ToolRan == pc = "tool_node" /\ (Len(runs') = Len(runs) + 1 \/ pc' = "tool_error")

\* the ToolCall that is run (a response carries one ToolCall in these runs)
TheCall == Last(messages).tool_calls[1]

\* the tool returned text, which became the run's output, and the loop goes on
ReturnedText(text) ==
    /\ executed'.result = Return(text)
    /\ runs' = Append(runs, ToolRun(1, text))
    /\ pc' = "tool_node"
    /\ response' = NoResponse

C12_Step ==
    (ToolRan /\ TheCall.args = "valid" /\ auth_token \in {None, ""}) =>
        /\ TheCall.name \in data_tools
        /\ ReturnedText(MISSING_TOKEN)
        /\ sent' = sent

\* C12: missing-credential determinism -- each of the 16 data tools (6
\* analytics, 6 search-console, 4 ads), run with arguments that fit its schema
\* and with an absent or empty credential, returns the string "Error:
\* Authentication token was not provided to the tool.", does not raise, and
\* issues no backend HTTP request.
C12_MissingCredential ==
    /\ [](Cardinality(google_analytics_tools) = 6
            /\ Cardinality(google_search_console_tools) = 6
            /\ Cardinality(google_ads_tools) = 4
            /\ Cardinality(data_tools) = 16)
    /\ [][C12_Step]_vars

\* a run under a config without auth_token whose analytics tool answered
\* with the missing-token text, after which the model answered
C12_Witness ==
    /\ pc = "__end__"
    /\ auth_token = None
    /\ executed.name \in google_analytics_tools
    /\ \E p \in 1..Len(messages) : messages[p] = ToolMessage(MISSING_TOKEN, 1)
    /\ sent = <<>>

\* the text is one of the tools' error texts for the message list errors
Mentions(text, errors) ==
    \E n \in google_search_console_tools \cup google_ads_tools :
       text = error_prefix(n) \o repr(errors)

\* C13: for every data tool of all three families (analytics, search-console,
\* ads), when the backend answers with a non-2xx status or the network call
\* fails, the tool returns (does not raise) a result text that contains the
\* normalized error messages of the raised Error.
C13_BackendErrorReturnedAsText ==
    executed.fetched.kind = "APIError" =>
        /\ executed.result.kind = "return"
        /\ Mentions(executed.result.value, executed.fetched.errors)

\* a 2xx response whose body is not JSON, is not an object, lacks "data", or
\* has a record field missing or of the wrong type
Unusable(resp) ==
    /\ resp.kind = "response"
    /\ is_success(resp.status)
    /\ \/ ~resp.body.json
       \/ resp.body.shape # "dict"
       \/ resp.body.data \in {"absent", "missing_field", "wrong_type"}

\* C14: a tool never throws past its own boundary when the backend answers
\* 2xx with an unusable body: the client reports a failure (never a record
\* with defaulted values) and the tool still returns a result string instead
\* of raising.
C14_UnusableBodyNeverRaises ==
    (executed.requests > 0 /\ Unusable(executed.resp)) =>
        /\ executed.fetched.kind # "records"
        /\ executed.result.kind = "return"

C15_Step ==
    /\ (ToolRan /\ (\/ executed'.fetched.kind = "APIError"
                    \/ TheCall.args = "invalid"
                    \/ auth_token \in {None, ""})) =>
          /\ pc' = "tool_node"
          /\ response' = NoResponse
          /\ Len(runs') = Len(runs) + 1
          /\ LET text == runs'[Len(runs')].content
             IN CASE TheCall.args = "invalid" -> text = tool_error_text("ValidationError")
                  [] auth_token \in {None, ""} -> text = MISSING_TOKEN
                  [] OTHER -> Mentions(text, executed'.fetched.errors)
    /\ toolTurns' # toolTurns =>
          /\ pc' = "chat_node"
          /\ Last(messages') = ToolMessage(runs[1].content, TheCall.id)

\* C15: inside-the-loop absorption -- once a /chat request has entered the
\* loop, no backend HTTP error, backend connectivity failure, tool-argument
\* validation failure or missing credential makes the request end with an
\* HTTP error; each such failure becomes the content of the tool-result
\* message for its ToolCall and the loop proceeds to the next model turn.
C15_InsideLoopAbsorption == [][C15_Step]_vars

C20_State ==
    /\ Len(sent) <= Len(ToolRequests(messages))
    /\ executed.requests \in {0, 1}
    /\ Len(sent) <= toolTurns + 1

C20_Step ==
    /\ Len(sent') <= Len(sent) + 1
    /\ sent' # sent => (ToolRan /\ sent' = Append(sent, TheCall.name))
    /\ ToolRan => (sent' # sent <=> (TheCall.args = "valid" /\ auth_token = "jwt"))
    /\ ~ToolRan => sent' = sent

\* C20: no retries -- every fetch of a backend client issues exactly one
\* outbound HTTP request whether it succeeds or fails, so one tool execution
\* causes at most one backend request and a failed request is never
\* re-issued by the client, the tool or the loop (only a new ToolCall from
\* the model causes another request).
C20_NoRetries == [](C20_State) /\ [][C20_Step]_vars

\* a finished run whose one ToolCall met a failed connection: one request
\* was sent, the failure was reported to the model, and the model answered
C20_Witness ==
    /\ pc = "__end__"
    /\ toolTurns = 1
    /\ executed.resp = RequestError("ReadTimeout")
    /\ executed.fetched.kind = "APIError"
    /\ sent = <<executed.name>>

(* ------------------- properties of the backend clients ------------------ *)
\* the latest fetch got a non-2xx response
GotErrorResponse == fetched.resp.kind = "response" /\ ~is_success(fetched.resp.status)

\* the body of that response, and the message list of the Error raised for it
ErrorPayload == fetched.resp.body
RaisedErrors == fetched.outcome.errors

\* the items of a JSON list as strings
Strings(v) == [i \in 1..Len(v.items) |-> v.items[i].s]

\* a non-empty JSON list of non-blank strings
NonBlankStrings(v) ==
    /\ v.t = "list"
    /\ v.items # <<>>
    /\ \A i \in 1..Len(v.items) : v.items[i].t = "str" /\ v.items[i].s \notin Blank

\* the body is an object whose "errors" is a string or a list of non-blank strings
StructuredErrors ==
    /\ (ErrorPayload.errors.t = "str" => RaisedErrors = <<ErrorPayload.errors.s>>)
    /\ (NonBlankStrings(ErrorPayload.errors) => RaisedErrors = Strings(ErrorPayload.errors))

\* C16 (as stated): for a non-2xx response, the raised Error's message list
\* is exactly [s] when the body is {"errors": s} with s a string, exactly the
\* given list when the body is {"errors": [a, b, ...]} of non-blank strings,
\* and exactly [x] when the body is {"message": x} with no usable `errors`
\* field; the same in all three clients.
C16_StructuredBodies ==
    (GotErrorResponse /\ ErrorPayload.shape = "dict") =>
        /\ StructuredErrors
        /\ (ErrorPayload.message.t = "str" /\ ErrorPayload.errors.t \notin {"str", "list"}) =>
              RaisedErrors = <<ErrorPayload.message.s>>

\* C16 (amended): for a non-2xx response, the raised Error's message list is
\* exactly [s] when the body is {"errors": s} with s a string, exactly the
\* given list when the body is {"errors": [a, b, ...]} of non-blank strings,
\* and exactly [x] when the body is {"message": x} with x a non-empty string
\* and `errors` absent or neither a string nor a list; an empty message gives
\* ["An unknown API error occurred."], and an `errors` list, also an empty
\* or all-blank one, is used instead of the message; the same in all three
\* clients.
C16_StructuredBodiesNonEmptyMessage ==
    (GotErrorResponse /\ ErrorPayload.shape = "dict") =>
        /\ fetched.outcome.kind = "APIError"
        /\ StructuredErrors
        /\ (ErrorPayload.message.t = "str" /\ ErrorPayload.errors.t \notin {"str", "list"}) =>
              RaisedErrors = IF ErrorPayload.message.s = ""
                             THEN <<UNKNOWN_API_ERROR>>
                             ELSE <<ErrorPayload.message.s>>
        /\ (ErrorPayload.message.t = "str" /\ ErrorPayload.errors.t = "list") =>
              RaisedErrors = IF non_blank(ErrorPayload.errors.items) = <<>>
                             THEN <<UNKNOWN_API_ERROR>>
                             ELSE non_blank(ErrorPayload.errors.items)

\* the search-console client got 401 with {"errors": "oauth required",
\* "message": "X"} and raised an Error with exactly the errors string
C16_Witness ==
    /\ fetched.name \in google_search_console_tools
    /\ fetched.resp = Response(401, Object(Str("oauth required"), Str("X"), "absent"))
    /\ fetched.outcome = APIError(401, <<"oauth required">>)

\* C17 (as stated): for a non-2xx response whose body cannot be parsed as
\* JSON, the raised Error's message list is exactly ["An unknown API error
\* occurred."], whatever the raw body text is.
C17_UnparseableGivesUnknown ==
    (GotErrorResponse /\ ~ErrorPayload.json) => RaisedErrors = <<UNKNOWN_API_ERROR>>

\* C17 (amended): for a non-2xx response whose body cannot be parsed as
\* JSON, the raised Error's message list is exactly [the raw body text] when
\* that text is not empty, and exactly ["An unknown API error occurred."]
\* when the body is empty.
C17_UnparseableGivesRawText ==
    (GotErrorResponse /\ ~ErrorPayload.json) =>
        /\ fetched.outcome.kind = "APIError"
        /\ RaisedErrors = IF ErrorPayload.text = ""
                          THEN <<UNKNOWN_API_ERROR>>
                          ELSE <<ErrorPayload.text>>

\* the analytics client got 503 with an HTML page and raised an Error whose
\* one message is the page
C17_Witness ==
    /\ fetched.name \in google_analytics_tools
    /\ fetched.resp = Response(503, NotJson("<html>Bad Gateway</html>"))
    /\ fetched.outcome = APIError(503, <<"<html>Bad Gateway</html>">>)

\* C18: for every non-2xx response, whatever its body ({"errors": []},
\* {"errors": ["", " "]}, {"errors": 5}, {"errors": ""}, {"message": ""}, a
\* non-object, or no recognised field), the raised Error carries the
\* response's own HTTP status code and a non-empty list of strings.
C18_StatusAndNonEmptyList ==
    GotErrorResponse =>
        /\ fetched.outcome.kind = "APIError"
        /\ fetched.outcome.status_code = fetched.resp.status
        /\ Len(RaisedErrors) >= 1
        /\ \A i \in 1..Len(RaisedErrors) : RaisedErrors[i] \in STRING

\* the ads client got 500 with {"errors": ["", " "]} and raised an Error of
\* status 500 with the one fallback message
C18_Witness ==
    /\ fetched.name \in google_ads_tools
    /\ fetched.resp = Response(500, Object(List(<<Str(""), Str(" ")>>), Absent, "absent"))
    /\ fetched.outcome = APIError(500, <<UNKNOWN_API_ERROR>>)

\* C19: every network-level failure (DNS, connection refused, timeout)
\* raises an Error with the same fixed classification (status 503) and
\* exactly one message, and this classification is distinct from that of any
\* Error raised for an upstream HTTP response: no non-2xx backend response
\* produces an Error with the connectivity classification.
C19_ConnectivityDistinct ==
    /\ fetched.resp.kind = "network" /\ fetched.resp # NoReply =>
          /\ fetched.outcome.kind = "APIError"
          /\ fetched.outcome.status_code = 503
          /\ Len(RaisedErrors) = 1
    /\ GotErrorResponse => fetched.outcome.status_code # 503

(* ----------------------- the shape of backend requests ------------------ *)
\* a search value was given: the argument is there and is not empty
GivenSearch(a) == "search" \in DOMAIN a /\ a.search # ""

\* the query parameters a ranking fetch is given: the dates, the limit (the
\* schema's 10 when the ToolCall has none) and the search value if there is one
RankingParams(a) ==
    [start_date |-> isoformat(a.start_date), end_date |-> isoformat(a.end_date),
     limit |-> IF "limit" \in DOMAIN a THEN a.limit ELSE 10]
        @@ (IF GivenSearch(a) THEN [search |-> a.search] ELSE NoArgs)

\* a tool that has its token sends exactly one request, a GET
OneGet ==
    (pc = "requested" /\ auth_token = "jwt") =>
        /\ Len(outbound) = 1
        /\ outbound[1].request.method = "GET"

\* C21 (as stated): a pages, countries or keywords ranking fetch sends one GET
\* whose query parameters are exactly start_date, end_date, limit and, when a
\* search value was given, search; it sends no other parameter.
C21_ExactlyDatesLimitSearch ==
    /\ OneGet
    /\ \A i \in 1..Len(outbound) :
          outbound[i].tool \in ranking_tools =>
              outbound[i].request.params = RankingParams(outbound[i].args)

\* C21 (amended): a ranking fetch sends one GET whose query parameters are
\* start_date, end_date, limit and, when a search value was given, search; the
\* analytics pages and countries fetches send order_by=desc as well, and no
\* fetch sends any other parameter.
C21_DatesLimitSearchAndOrderBy ==
    /\ OneGet
    /\ \A i \in 1..Len(outbound) :
          LET o == outbound[i] IN
          o.tool \in ranking_tools =>
              o.request.params =
                  IF o.tool \in google_analytics_tools
                  THEN RankingParams(o.args) @@ [order_by |-> "desc"]
                  ELSE RankingParams(o.args)

\* the analytics pages ranking was fetched with limit 5 and search "BMW"
C21_Witness ==
    /\ Len(outbound) = 1
    /\ outbound[1].tool = "get_google_analytics_traffic_by_pages"
    /\ "limit" \in DOMAIN outbound[1].args
    /\ GivenSearch(outbound[1].args)
    /\ DOMAIN outbound[1].request.params =
          {"start_date", "end_date", "limit", "search", "order_by"}

\* the identifier of an entity-detail ToolCall
IdentifierOf(a) ==
    CASE "country" \in DOMAIN a     -> a.country
      [] "page_path" \in DOMAIN a   -> a.page_path
      [] "keyword" \in DOMAIN a     -> a.keyword
      [] "campaign_id" \in DOMAIN a -> a.campaign_id

IsUpper(c) == \E k \in 1..26 : ascii_uppercase[k] = c

\* seg is id with every upper-case letter replaced by its lower-case letter
LowerCased(id, seg) ==
    /\ Len(seg) = Len(id)
    /\ \A k \in 1..Len(id) :
          \/ ~IsUpper(id[k]) /\ seg[k] = id[k]
          \/ \E j \in 1..26 : id[k] = ascii_uppercase[j] /\ seg[k] = ascii_lowercase[j]

\* C22 (as stated): every entity-detail tool places the identifier of its
\* ToolCall verbatim, characters and case unchanged, into the path segment of
\* the backend call.
C22_IdentifierVerbatim ==
    \A i \in 1..Len(outbound) :
        outbound[i].tool \in detail_tools =>
            outbound[i].request.endpoint.segment = IdentifierOf(outbound[i].args)

\* C22 (amended): every entity-detail tool places the identifier verbatim into
\* the path segment, except the analytics country tool, which places the
\* country converted to lower case.
C22_VerbatimButAnalyticsCountry ==
    \A i \in 1..Len(outbound) :
        LET o == outbound[i] IN
        o.tool \in detail_tools =>
            IF o.tool = "get_google_analytics_daily_traffic_for_country"
            THEN LowerCased(o.args.country, o.request.endpoint.segment)
            ELSE o.request.endpoint.segment = IdentifierOf(o.args)

\* the analytics country tool was called for "Spain" and asked for "spain"
C22_Witness ==
    /\ Len(outbound) = 1
    /\ outbound[1].tool = "get_google_analytics_daily_traffic_for_country"
    /\ outbound[1].args.country = <<"S", "p", "a", "i", "n">>
    /\ outbound[1].request.endpoint =
          Endpoint("/google-analytics/countries/", <<"s", "p", "a", "i", "n">>)

\* the ToolCall asks for organic traffic only
Organic(a) == "organic_only" \in DOMAIN a /\ a.organic_only

\* C23: the analytics overall and daily traffic tools send the request to the
\* organic-only endpoint when organic_only is true and to the standard endpoint
\* when it is false or absent; the query parameters are exactly start_date and
\* end_date, and the endpoint depends on nothing but organic_only.
C23_OrganicOnlyPicksEndpoint ==
    \A i \in 1..Len(outbound) :
        LET o == outbound[i] IN
        o.tool \in traffic_tools =>
            /\ o.request.endpoint.segment = <<>>
            /\ o.request.endpoint.path =
                  CASE o.tool = "get_google_analytics_overall_traffic" /\ Organic(o.args) ->
                          "/google-analytics/overall-organic-traffic"
                    [] o.tool = "get_google_analytics_overall_traffic" ->
                          "/google-analytics/overall"
                    [] Organic(o.args) -> "/google-analytics/daily-organic-traffic"
                    [] OTHER           -> "/google-analytics/daily"
            /\ o.request.params =
                  [start_date |-> isoformat(o.args.start_date),
                   end_date |-> isoformat(o.args.end_date)]

\* the daily traffic tool was asked for organic traffic only
C23_Witness ==
    /\ Len(outbound) = 1
    /\ outbound[1].tool = "get_google_analytics_daily_traffic"
    /\ Organic(outbound[1].args)
    /\ outbound[1].request.endpoint.path = "/google-analytics/daily-organic-traffic"

(* ----------------------- what the model is sent ------------------------- *)
IsPrompt(m) == m = SystemMessage(system_prompt)

C27_Step ==
    modelTurns' > modelTurns =>
        /\ model_input' = <<SystemMessage(system_prompt)>> \o messages
        /\ Cardinality({i \in 1..Len(model_input') : IsPrompt(model_input'[i])}) = 1
        /\ \A i \in 1..Len(messages') : ~IsPrompt(messages'[i])

\* C27: on every model turn the model is sent the system instructions first and
\* then the complete current history in order; the instructions occur exactly
\* once in the model's input and are never stored in the conversation state.
C27_ModelInput == [][C27_Step]_vars

\* a second model turn was sent the prompt, the caller's message, the first
\* response and a tool result
C27_Witness ==
    /\ modelTurns = 2
    /\ Len(request) = 1
    /\ IsPrompt(model_input[1])
    /\ Len(model_input) = Len(messages)
    /\ \E i \in 1..Len(model_input) : model_input[i].type = "tool"

(* -------------------------- rejected requests --------------------------- *)
\* the roles the service names for a caller's turn
NamedRoles == {"system", "user", "assistant", "tool"}

HasUnnamedRole(turns) == \E i \in 1..Len(turns) : turns[i].role \notin NamedRoles

\* a response of the normalized form {"errors": [...]}
IsErrorEnvelope(r) == "errors" \in DOMAIN r /\ r.errors # <<>>

\* C28: a request with a turn whose role is none of system, user, assistant
\* and tool is rejected: no model turn is performed, nothing of it reaches the
\* model or the public output, and the caller gets a normalized error envelope.
C28_UnknownRoleRejected ==
    (HasUnnamedRole(request) /\ pc # "request") =>
        /\ modelTurns = 0
        /\ model_input = <<>>
        /\ response.messages = <<>>
        /\ IsErrorEnvelope(response)

(* --------------------------- append-only history ------------------------ *)
IsPrefix(a, b) == Len(a) <= Len(b) /\ SubSeq(b, 1, Len(a)) = a

C29_Step ==
    /\ IsPrefix(messages, messages')
    /\ pc' \in {"chat_node", "tool_node", "__end__", "out_of_steps"} =>
          IsPrefix(convert_to_messages(request), messages')

\* C29: every transition leaves the messages already in the history unchanged
\* in content and position and only adds messages at the end, so the caller's
\* messages remain the prefix of the history.
C29_AppendOnly == [][C29_Step]_vars

\* a model turn and a tool turn have been appended after the caller's message
C29_Witness ==
    /\ Len(request) = 1
    /\ toolTurns >= 1
    /\ modelTurns >= 2
    /\ Len(messages) >= 4
    /\ messages[1] = convert_to_message(request[1])

(* -------------------------- errors before the loop ---------------------- *)
HasCredential == inbound.authorization = Authorization("Bearer", "jwt")

WellFormed == inbound.body.json = "ChatRequest"

NoTurnTaken == modelTurns = 0 /\ toolTurns = 0 /\ model_input = <<>>

\* C26: a /chat request without a valid bearer credential is answered with HTTP
\* 401 and a request with a malformed body with HTTP 422, each with the
\* envelope {"errors": [...]}, and no model turn and no tool execution takes
\* place for either.
C26_PreLoopErrors ==
    pc # "http" =>
        /\ (~HasCredential /\ WellFormed) =>
              response.status = 401 /\ IsErrorEnvelope(response) /\ NoTurnTaken
        /\ (HasCredential /\ ~WellFormed) =>
              response.status = 422 /\ IsErrorEnvelope(response) /\ NoTurnTaken
        /\ (~HasCredential /\ ~WellFormed) =>
              response.status \in {401, 422} /\ IsErrorEnvelope(response) /\ NoTurnTaken

(* ------------------------- the error envelope --------------------------- *)
\* C30: every error response has the body {"errors": L} with L a non-empty
\* list of strings, for every Error, HTTP exception and request-validation
\* failure the handlers can be handed, an Error whose only message is blank
\* and an HTTP exception whose detail is a list of blank strings among them.
C30_NonEmptyErrors ==
    pc = "handled" =>
        /\ IsErrorEnvelope(response)
        /\ \A i \in 1..Len(response.errors) : response.errors[i] \in STRING

(* --------------------------- request isolation -------------------------- *)
\* the message the i-th answer given to request c puts into its history: the
\* model's response, or the result of its ToolCall for the backend's reply
OwnMessage(c, i) ==
    IF c.answers[i].kind = "model" THEN c.answers[i].value
    ELSE LET call == c.answers[i - 1].value.tool_calls[1]
             e == invoke(call, c.token, c.answers[i].value)
         IN ToolMessage(IF e.result.kind = "return" THEN e.result.value
                        ELSE tool_error_text(e.result.value), call.id)

\* the caller's messages of request c, then one message for each answer it
\* got (none for the reply whose failure ended the run)
OwnHistory(c) ==
    convert_to_messages(c.request)
        \o [i \in 1..(Len(c.answers) - IF c.pc = "tool_error" THEN 1 ELSE 0) |->
               OwnMessage(c, i)]

\* C24: when two /chat requests run concurrently on the shared graph, in every
\* interleaving each run's history holds only its own caller's messages, model
\* responses and tool results, every backend request of a run carries the
\* bearer credential of that run's request, and a request that has not started
\* sees nothing of one that has finished.
C24_RequestIsolation ==
    \A r \in Runs :
        /\ chats[r].pc # "request" => chats[r].messages = OwnHistory(chats[r])
        /\ chats[r].pc = "request" =>
              chats[r].messages = <<>> /\ chats[r].outbound = <<>> /\ chats[r].log = <<>>
        /\ \A i \in 1..Len(chats[r].outbound) :
              chats[r].outbound[i].request.authorization = "Bearer " \o chats[r].token

\* two requests of different callers have both called the backend and ended
C24_Witness ==
    /\ chats[1].token # chats[2].token
    /\ chats[1].request # chats[2].request
    /\ \A r \in Runs :
          /\ chats[r].pc = "__end__"
          /\ chats[r].outbound # <<>>
          /\ Len(chats[r].messages) = 4

(* ------------------------- the bearer credential ------------------------ *)
\* a credential, bare or as the Authorization header carries it
Secrets == BearerTokens \cup {"Bearer " \o t : t \in BearerTokens}

\* the records logged for a request, without the correlation id
Logged(c) ==
    [i \in 1..Len(c.log) |->
        [event |-> c.log[i].event, tool |-> c.log[i].tool, text |-> c.log[i].text]]

NoSecretShown(c) ==
    /\ \A i \in 1..Len(c.messages) : c.messages[i].content \notin Secrets
    /\ \A i \in 1..Len(c.response.messages) : c.response.messages[i].content \notin Secrets
    /\ \A i \in 1..Len(c.log) : c.log[i].text \notin Secrets /\ c.log[i].tool \notin Secrets

\* C25: the bearer credential of a request appears in no message of the
\* history, not in the public response and in no log record; two runs that
\* differ only in the credential and get the same answers from the model and
\* the backend have, at the same position, the same history, response and
\* log records.
C25_CredentialNeverShown ==
    /\ \A r \in Runs : NoSecretShown(chats[r])
    /\ \A r1, r2 \in Runs :
          (/\ chats[r1].request = chats[r2].request
           /\ chats[r1].answers = chats[r2].answers
           /\ chats[r1].pc = chats[r2].pc) =>
              /\ chats[r1].messages = chats[r2].messages
              /\ chats[r1].response = chats[r2].response
              /\ Logged(chats[r1]) = Logged(chats[r2])

\* two runs with different credentials got the same backend error and ended
\* with the same history
C25_Witness ==
    /\ chats[1].token # chats[2].token
    /\ chats[1].request = chats[2].request
    /\ chats[1].answers = chats[2].answers
    /\ chats[1].pc = "__end__"
    /\ chats[2].pc = "__end__"
    /\ \E i \in 1..Len(chats[1].answers) :
          chats[1].answers[i] =
              Answer("backend", Response(401, Object(Str("oauth required"), Absent, "absent")))
    /\ chats[1].outbound # chats[2].outbound
    /\ \E i \in 1..Len(chats[1].log) : chats[1].log[i].event = "request"

====
